---- MODULE Spec2Model ----
(***************************************************************************)
(* State-machine model of the colander cache core: the arena-allocated     *)
(* intrusive list (arena.rs), the three eviction policies SIEVE, LRU and   *)
(* FIFO (sieve.rs, lru.rs, fifo.rs) and the cached value's TTL test        *)
(* (traits.rs).  One policy instance is driven by an arbitrary sequence of *)
(* get / insert / remove calls while a monotonic clock advances.  Two more *)
(* specifications drive the arena alone through its own interface, and the *)
(* sharded wrapper (sharded.rs) from several threads.  The last part is    *)
(* the proxy's dual-cache layer (cache_layer.rs) behind its swap pointer,  *)
(* with the mode switch and the config reload (config.rs, main.rs).        *)
(***************************************************************************)
EXTENDS Integers, Sequences, FiniteSets, TLC

VARIABLES policy, cache, now, byInsert, byUse,   \* one policy instance
          unhit,
          arena, arenaCap, handed,                \* one arena driven directly
          shards, locks, threads, reader, lin,    \* the sharded wrapper
          issued,
          layers, cache_swap, current_config,     \* the proxy's cache layer
          callers, seen,
          parsed                                  \* the proxy's header parser

cacheVars == <<policy, cache, now, byInsert, byUse, unhit>>
arenaVars == <<arena, arenaCap, handed>>
shardVars == <<shards, locks, threads, reader, lin, issued>>
layerVars == <<layers, cache_swap, current_config, callers, seen, parsed>>
vars == <<cacheVars, arenaVars, shardVars, layerVars>>

\* The value of the variables of a part that a specification does not drive.
Unused == <<>>
CacheUnused ==
    /\ policy = Unused
    /\ cache = Unused
    /\ now = 0
    /\ byInsert = Unused
    /\ byUse = Unused
    /\ unhit = Unused
ArenaUnused == arena = Unused /\ arenaCap = Unused /\ handed = Unused
ShardsUnused ==
    /\ shards = Unused
    /\ locks = Unused
    /\ threads = Unused
    /\ reader = Unused
    /\ lin = Unused
    /\ issued = Unused
LayerUnused ==
    /\ layers = Unused
    /\ cache_swap = Unused
    /\ current_config = Unused
    /\ callers = Unused
    /\ seen = Unused
    /\ parsed = Unused

(***************************************************************************)
(* Bounds of the model.                                                    *)
(***************************************************************************)
MaxTime == 1       \* the clock runs over 0..MaxTime
MaxCount == 2      \* each of hits, misses, evictions is driven up to MaxCount
MaxCalls == 3      \* get / insert / remove calls issued under SpecSharded
MaxReads == 2      \* len / stats calls issued under SpecSharded
MaxEntered == 2    \* get / insert / remove calls entered under FairSharded
OpsPerThread == 3  \* operations of each thread of concurrent_access (1000)
MaxPopulate == 1   \* inserts of the pre-population of concurrent_access (1000)
MaxLayerCalls == 3 \* get / insert calls made on the cache layer under SpecLayer
MaxFlips == 1      \* set_mode calls under SpecLayer and SpecReload
MaxReloads == 2    \* config reloads under SpecReload
MaxReloadCalls == 1 \* get / insert calls made on the cache layer under SpecReload
MaxDirectives == 3  \* directives of a Cache-Control value under SpecParse

Capacities == {1, 2}           \* capacities constructed under Spec
Keys == {"a", "b", "c"}        \* keys used under Spec
TTLs == {0, 1}                 \* ttl values of inserted responses
Ages == {0, 1}                 \* now - inserted_at of a response when inserted
SieveKeys == {"a", "b", "c", "d"}        \* keys used under SpecSieve
SieveCapacity == Cardinality(SieveKeys) - 1
ArenaCapacities == {1, 2, 3}   \* capacities constructed under SpecArena
Policies == {"SIEVE", "LRU", "FIFO"}
TotalCapacities == {0, 128}    \* total_capacity given to ShardedCache::new
MaxTotal == 200                \* total_capacity up to which per_shard is computed
Workers == {"w1", "w2"}        \* threads calling get / insert / remove
Reader == "r"                  \* the thread calling len / stats
NoThread == "none"
NoKey == "-"

(***************************************************************************)
(* arena.rs                                                                *)
(***************************************************************************)
\* NIL = u32::MAX: a sentinel outside the range of slot indices (the checker's
\* integers are 32-bit signed, so the sentinel is written -1).
NIL == -1

None == [none |-> TRUE]

\* The panic of a constructor's `assert!(capacity > 0, ...)`.
Refused == [panic |-> "cache capacity must be > 0"]

\* CachedResponse: only the fields the cache core reads.
Values(t) == [inserted_at : {t - g : g \in {h \in Ages : h <= t}}, ttl : TTLs]

\* is_expired with the comparison turned round.
IsExpiredReversed(value, t) == value.ttl > t - value.inserted_at

\* is_expired that also reports an entry whose age equals its ttl.
IsExpiredAtTtl(value, t) == t - value.inserted_at >= value.ttl

\* CachedResponse::is_expired at clock reading t.
IsExpired(value, t) == t - value.inserted_at > value.ttl

\* Node::new with the visited bit set.
NodeNewVisited(key, value) ==
    [key |-> key, value |-> value, visited |-> TRUE, prev |-> NIL, next |-> NIL]

\* Node::new
NodeNew(key, value) ==
    [key |-> key, value |-> value, visited |-> FALSE, prev |-> NIL, next |-> NIL]

\* Arena::new
ArenaNew(capacity) ==
    [slots     |-> [i \in 0..(capacity - 1) |-> None],
     free_list |-> [j \in 1..capacity |-> capacity - j],
     head      |-> NIL,
     tail      |-> NIL,
     len       |-> 0]

\* Arena::get
ArenaGet(a, index) ==
    IF index \in DOMAIN a.slots THEN a.slots[index] ELSE None

\* push_head that grows the slot vector when no slot is free.
PushHeadGrows(a, node) ==
    LET full  == a.free_list = <<>>
        index == IF full THEN a.len ELSE a.free_list[Len(a.free_list)]
        linked == [node EXCEPT !.prev = NIL, !.next = a.head]
        s1 == [i \in (DOMAIN a.slots) \cup {index} |->
                  IF i = index THEN linked ELSE a.slots[i]]
        s2 == IF a.head # NIL
              THEN [s1 EXCEPT ![a.head].prev = index]
              ELSE s1
    IN  [arena |-> [slots     |-> s2,
                    free_list |-> IF full THEN <<>>
                                  ELSE SubSeq(a.free_list, 1, Len(a.free_list) - 1),
                    head      |-> index,
                    tail      |-> IF a.tail = NIL THEN index ELSE a.tail,
                    len       |-> a.len + 1],
         index |-> index]

\* Arena::push_head; index = NIL stands for the None result.
PushHead(a, node) ==
    IF a.free_list = <<>>
    THEN [arena |-> a, index |-> NIL]
    ELSE LET index == a.free_list[Len(a.free_list)]
             linked == [node EXCEPT !.prev = NIL, !.next = a.head]
             s1 == [a.slots EXCEPT ![index] = linked]
             s2 == IF a.head # NIL
                   THEN [s1 EXCEPT ![a.head].prev = index]
                   ELSE s1
         IN  [arena |-> [slots     |-> s2,
                         free_list |-> SubSeq(a.free_list, 1, Len(a.free_list) - 1),
                         head      |-> index,
                         tail      |-> IF a.tail = NIL THEN index ELSE a.tail,
                         len       |-> a.len + 1],
              index |-> index]

\* Arena::remove that forgets `self.len -= 1`.
ArenaRemoveKeepsLen(a, index) ==
    IF a.slots[index] = None
    THEN [arena |-> a, node |-> None]
    ELSE LET node == a.slots[index]
             prev == node.prev
             next == node.next
             s0 == [a.slots EXCEPT ![index] = None]
             s1 == IF prev # NIL THEN [s0 EXCEPT ![prev].next = next] ELSE s0
             s2 == IF next # NIL THEN [s1 EXCEPT ![next].prev = prev] ELSE s1
         IN  [arena |-> [slots     |-> s2,
                         free_list |-> Append(a.free_list, index),
                         head      |-> IF prev # NIL THEN a.head ELSE next,
                         tail      |-> IF next # NIL THEN a.tail ELSE prev,
                         len       |-> a.len],
              node |-> node]

\* Arena::remove that does not return the slot to the free list.
ArenaRemoveNoReclaim(a, index) ==
    IF a.slots[index] = None
    THEN [arena |-> a, node |-> None]
    ELSE LET node == a.slots[index]
             prev == node.prev
             next == node.next
             s0 == [a.slots EXCEPT ![index] = None]
             s1 == IF prev # NIL THEN [s0 EXCEPT ![prev].next = next] ELSE s0
             s2 == IF next # NIL THEN [s1 EXCEPT ![next].prev = prev] ELSE s1
         IN  [arena |-> [slots     |-> s2,
                         free_list |-> a.free_list,
                         head      |-> IF prev # NIL THEN a.head ELSE next,
                         tail      |-> IF next # NIL THEN a.tail ELSE prev,
                         len       |-> a.len - 1],
              node |-> node]

\* Arena::remove; node = None when the slot was empty.
ArenaRemove(a, index) ==
    IF a.slots[index] = None
    THEN [arena |-> a, node |-> None]
    ELSE LET node == a.slots[index]
             prev == node.prev
             next == node.next
             s0 == [a.slots EXCEPT ![index] = None]
             s1 == IF prev # NIL THEN [s0 EXCEPT ![prev].next = next] ELSE s0
             s2 == IF next # NIL THEN [s1 EXCEPT ![next].prev = prev] ELSE s1
         IN  [arena |-> [slots     |-> s2,
                         free_list |-> Append(a.free_list, index),
                         head      |-> IF prev # NIL THEN a.head ELSE next,
                         tail      |-> IF next # NIL THEN a.tail ELSE prev,
                         len       |-> a.len - 1],
              node |-> node]

\* move_to_head without the `self.tail = prev` of the tail case.
MoveToHeadKeepsTail(a, index) ==
    IF a.head = index
    THEN a
    ELSE LET node == a.slots[index]
             prev == node.prev
             next == node.next
             s1 == IF prev # NIL THEN [a.slots EXCEPT ![prev].next = next] ELSE a.slots
             s2 == IF next # NIL THEN [s1 EXCEPT ![next].prev = prev] ELSE s1
             s3 == [s2 EXCEPT ![index].prev = NIL, ![index].next = a.head]
             s4 == IF a.head # NIL THEN [s3 EXCEPT ![a.head].prev = index] ELSE s3
         IN  [a EXCEPT !.slots = s4, !.head = index]

\* move_to_head that moves the entry instead of the links: the node keeps its
\* place in the list and trades key, value and visited bit with its
\* neighbours up to the head.
MoveToHeadBySwap(a, index) ==
    IF a.head = index
    THEN a
    ELSE LET RECURSIVE shift(_, _, _)
             shift(slots, i, carried) ==
                 LET here == slots[i]
                     put  == [slots EXCEPT ![i].key = carried.key,
                                           ![i].value = carried.value,
                                           ![i].visited = carried.visited]
                 IN  IF i = index THEN put ELSE shift(put, here.next, here)
         IN  [a EXCEPT !.slots = shift(a.slots, a.head, a.slots[index])]

\* move_to_head without the early return for a node that is already the head.
MoveToHeadRelinksHead(a, index) ==
    LET node == a.slots[index]
        prev == node.prev
        next == node.next
        s1 == IF prev # NIL THEN [a.slots EXCEPT ![prev].next = next] ELSE a.slots
        s2 == IF next # NIL THEN [s1 EXCEPT ![next].prev = prev] ELSE s1
        s3 == [s2 EXCEPT ![index].prev = NIL, ![index].next = a.head]
        s4 == IF a.head # NIL THEN [s3 EXCEPT ![a.head].prev = index] ELSE s3
    IN  [a EXCEPT !.slots = s4,
                  !.tail  = IF next # NIL THEN a.tail ELSE prev,
                  !.head  = index]

\* Arena::move_to_head
MoveToHead(a, index) ==
    IF a.head = index
    THEN a
    ELSE LET node == a.slots[index]
             prev == node.prev
             next == node.next
             s1 == IF prev # NIL THEN [a.slots EXCEPT ![prev].next = next] ELSE a.slots
             s2 == IF next # NIL THEN [s1 EXCEPT ![next].prev = prev] ELSE s1
             s3 == [s2 EXCEPT ![index].prev = NIL, ![index].next = a.head]
             s4 == IF a.head # NIL THEN [s3 EXCEPT ![a.head].prev = index] ELSE s3
         IN  [a EXCEPT !.slots = s4,
                       !.tail  = IF next # NIL THEN a.tail ELSE prev,
                       !.head  = index]

\* Arena::pop_tail; index = NIL stands for the None result.
PopTail(a) ==
    IF a.tail = NIL
    THEN [arena |-> a, index |-> NIL, node |-> None]
    ELSE LET r == ArenaRemove(a, a.tail)
         IN  IF r.node = None
             THEN [arena |-> r.arena, index |-> NIL, node |-> None]
             ELSE [arena |-> r.arena, index |-> a.tail, node |-> r.node]

\* HashMap::remove
MapRemove(map, key) == [k \in (DOMAIN map) \ {key} |-> map[k]]

\* HashMap::insert that records the first slot of the arena for every key.
MapInsertFirstSlot(map, key, index) ==
    [k \in (DOMAIN map) \cup {key} |-> IF k = key THEN 0 ELSE map[k]]

\* HashMap::insert
MapInsert(map, key, index) ==
    [k \in (DOMAIN map) \cup {key} |-> IF k = key THEN index ELSE map[k]]

(***************************************************************************)
(* sieve.rs                                                                *)
(***************************************************************************)
\* SieveCache::new
SieveNew(capacity) ==
    IF ~(capacity > 0) THEN Refused ELSE
    [arena     |-> ArenaNew(capacity),
     map       |-> [k \in {} |-> 0],
     hand      |-> NIL,
     capacity  |-> capacity,
     hits      |-> 0,
     misses    |-> 0,
     evictions |-> 0]

\* The scan of evict_one can inspect each node at most twice; a run that
\* inspects more than ScanFuel(c) nodes is reported as diverged.
ScanFuel(c) == 2 * c.capacity + 2

\* The loop of evict_one without the wrap: it returns when the hand walks
\* past the head.
RECURSIVE EvictLoopNoWrap(_, _, _)
EvictLoopNoWrap(c, t, scan) ==
    IF c.hand = NIL
    THEN [c |-> c, scan |-> scan, evicted |-> NoKey, diverged |-> FALSE]
    ELSE LET index == c.hand
             node  == ArenaGet(c.arena, index)
             r     == ArenaRemove(c.arena, index)
             gone  == [c EXCEPT !.hand = node.prev,
                                !.arena = r.arena,
                                !.map = MapRemove(c.map, r.node.key),
                                !.evictions = c.evictions + 1]
         IN  IF IsExpired(node.value, t)
             THEN [c |-> gone, scan |-> Append(scan, index),
                   evicted |-> r.node.key, diverged |-> FALSE]
             ELSE IF node.visited
             THEN EvictLoopNoWrap([c EXCEPT !.arena.slots[index].visited = FALSE,
                                            !.hand = node.prev],
                                  t, Append(scan, index))
             ELSE [c |-> gone, scan |-> Append(scan, index),
                   evicted |-> r.node.key, diverged |-> FALSE]

\* The loop of evict_one that does not count the eviction of an expired node.
RECURSIVE EvictLoopExpiredUncounted(_, _, _)
EvictLoopExpiredUncounted(c, t, scan) ==
    LET c1 == IF c.hand = NIL THEN [c EXCEPT !.hand = c.arena.tail] ELSE c
    IN  IF c1.hand = NIL
        THEN [c |-> c1, scan |-> scan, evicted |-> NoKey, diverged |-> FALSE]
        ELSE IF Len(scan) >= ScanFuel(c)
        THEN [c |-> c1, scan |-> scan, evicted |-> NoKey, diverged |-> TRUE]
        ELSE LET index == c1.hand
                 node  == ArenaGet(c1.arena, index)
                 r     == ArenaRemove(c1.arena, index)
                 gone  == [c1 EXCEPT !.hand = node.prev,
                                     !.arena = r.arena,
                                     !.map = MapRemove(c1.map, r.node.key)]
             IN  IF IsExpired(node.value, t)
                 THEN [c |-> gone, scan |-> Append(scan, index),
                       evicted |-> r.node.key, diverged |-> FALSE]
                 ELSE IF node.visited
                 THEN EvictLoopExpiredUncounted(
                          [c1 EXCEPT !.arena.slots[index].visited = FALSE,
                                     !.hand = node.prev],
                          t, Append(scan, index))
                 ELSE [c |-> [gone EXCEPT !.evictions = c1.evictions + 1],
                       scan |-> Append(scan, index),
                       evicted |-> r.node.key, diverged |-> FALSE]

\* The loop of evict_one that gives a visited node its second chance by
\* moving it to the head (FIFO with reinsertion).
RECURSIVE EvictLoopReinsert(_, _, _)
EvictLoopReinsert(c, t, scan) ==
    LET c1 == IF c.hand = NIL THEN [c EXCEPT !.hand = c.arena.tail] ELSE c
    IN  IF c1.hand = NIL
        THEN [c |-> c1, scan |-> scan, evicted |-> NoKey, diverged |-> FALSE]
        ELSE IF Len(scan) >= ScanFuel(c)
        THEN [c |-> c1, scan |-> scan, evicted |-> NoKey, diverged |-> TRUE]
        ELSE LET index == c1.hand
                 node  == ArenaGet(c1.arena, index)
                 r     == ArenaRemove(c1.arena, index)
                 gone  == [c1 EXCEPT !.hand = node.prev,
                                     !.arena = r.arena,
                                     !.map = MapRemove(c1.map, r.node.key),
                                     !.evictions = c1.evictions + 1]
             IN  IF IsExpired(node.value, t)
                 THEN [c |-> gone, scan |-> Append(scan, index),
                       evicted |-> r.node.key, diverged |-> FALSE]
                 ELSE IF node.visited
                 THEN EvictLoopReinsert(
                          [c1 EXCEPT !.arena = MoveToHead(
                                         [c1.arena EXCEPT !.slots[index].visited = FALSE],
                                         index),
                                     !.hand = node.prev],
                          t, Append(scan, index))
                 ELSE [c |-> gone, scan |-> Append(scan, index),
                       evicted |-> r.node.key, diverged |-> FALSE]

\* The loop of SieveCache::evict_one, entered with the slots in scan already
\* inspected.  Result: the cache, the slots inspected in order, the evicted key.
RECURSIVE EvictLoop(_, _, _)
EvictLoop(c, t, scan) ==
    LET c1 == IF c.hand = NIL THEN [c EXCEPT !.hand = c.arena.tail] ELSE c
    IN  IF c1.hand = NIL
        THEN [c |-> c1, scan |-> scan, evicted |-> NoKey, diverged |-> FALSE]
        ELSE IF Len(scan) >= ScanFuel(c)
        THEN [c |-> c1, scan |-> scan, evicted |-> NoKey, diverged |-> TRUE]
        ELSE LET index == c1.hand
                 node  == ArenaGet(c1.arena, index)
                 r     == ArenaRemove(c1.arena, index)
                 gone  == [c1 EXCEPT !.hand = node.prev,
                                     !.arena = r.arena,
                                     !.map = MapRemove(c1.map, r.node.key),
                                     !.evictions = c1.evictions + 1]
             IN  IF IsExpired(node.value, t)
                 THEN [c |-> gone, scan |-> Append(scan, index),
                       evicted |-> r.node.key, diverged |-> FALSE]
                 ELSE IF node.visited
                 THEN EvictLoop([c1 EXCEPT !.arena.slots[index].visited = FALSE,
                                           !.hand = node.prev],
                                t, Append(scan, index))
                 ELSE [c |-> gone, scan |-> Append(scan, index),
                       evicted |-> r.node.key, diverged |-> FALSE]

\* evict_one that restarts its scan at the tail on every call.
EvictOneFromTail(c, t) ==
    EvictLoop([c EXCEPT !.hand = c.arena.tail], t, <<>>)

\* evict_one that starts its scan at the head when the hand is NIL.
EvictOneFromHead(c, t) ==
    EvictLoop(IF c.hand = NIL THEN [c EXCEPT !.hand = c.arena.head] ELSE c, t, <<>>)

\* SieveCache::evict_one
EvictOne(c, t) ==
    EvictLoop(IF c.hand = NIL THEN [c EXCEPT !.hand = c.arena.tail] ELSE c, t, <<>>)

\* SieveCache::get that promotes the node on a hit, as LRU does.
SieveGetPromote(c, key, t) ==
    IF key \in DOMAIN c.map
    THEN LET index == c.map[key]
             node  == ArenaGet(c.arena, index)
         IN  IF IsExpired(node.value, t)
             THEN [c |-> [c EXCEPT !.misses = c.misses + 1,
                                   !.map = MapRemove(c.map, key),
                                   !.hand = IF c.hand = index THEN node.prev ELSE c.hand,
                                   !.arena = ArenaRemove(c.arena, index).arena],
                   result |-> None]
             ELSE [c |-> [c EXCEPT !.hits = c.hits + 1,
                                   !.arena = MoveToHead(
                                       [c.arena EXCEPT !.slots[index].visited = TRUE],
                                       index)],
                   result |-> node.value]
    ELSE [c |-> [c EXCEPT !.misses = c.misses + 1], result |-> None]

\* SieveCache::get
SieveGet(c, key, t) ==
    IF key \in DOMAIN c.map
    THEN LET index == c.map[key]
             node  == ArenaGet(c.arena, index)
         IN  IF IsExpired(node.value, t)
             THEN [c |-> [c EXCEPT !.misses = c.misses + 1,
                                   !.map = MapRemove(c.map, key),
                                   !.hand = IF c.hand = index THEN node.prev ELSE c.hand,
                                   !.arena = ArenaRemove(c.arena, index).arena],
                   result |-> None]
             ELSE [c |-> [c EXCEPT !.hits = c.hits + 1,
                                   !.arena.slots[index].visited = TRUE],
                   result |-> node.value]
    ELSE [c |-> [c EXCEPT !.misses = c.misses + 1], result |-> None]

\* The eviction loop of SieveCache::insert with `>` for `>=`.
RECURSIVE SieveEvictWhileGt(_, _, _, _)
SieveEvictWhileGt(c, t, fuel, acc) ==
    IF c.arena.len > c.capacity
    THEN IF fuel = 0
         THEN [acc EXCEPT !.c = c, !.diverged = TRUE]
         ELSE LET r == EvictOne(c, t)
              IN  IF r.diverged
                  THEN [acc EXCEPT !.c = r.c, !.diverged = TRUE,
                                   !.scans = Append(acc.scans, r.scan)]
                  ELSE SieveEvictWhileGt(r.c, t, fuel - 1,
                           [acc EXCEPT !.scans = Append(acc.scans, r.scan),
                                       !.evicted = IF r.evicted = NoKey
                                                   THEN acc.evicted
                                                   ELSE Append(acc.evicted, r.evicted)])
    ELSE [acc EXCEPT !.c = c]

\* The `while self.arena.len() >= self.capacity { self.evict_one(); }` loop of
\* SieveCache::insert; it gives up (diverged) after fuel calls.
RECURSIVE SieveEvictWhile(_, _, _, _)
SieveEvictWhile(c, t, fuel, acc) ==
    IF c.arena.len >= c.capacity
    THEN IF fuel = 0
         THEN [acc EXCEPT !.c = c, !.diverged = TRUE]
         ELSE LET r == EvictOne(c, t)
              IN  IF r.diverged
                  THEN [acc EXCEPT !.c = r.c, !.diverged = TRUE,
                                   !.scans = Append(acc.scans, r.scan)]
                  ELSE SieveEvictWhile(r.c, t, fuel - 1,
                           [acc EXCEPT !.scans = Append(acc.scans, r.scan),
                                       !.evicted = IF r.evicted = NoKey
                                                   THEN acc.evicted
                                                   ELSE Append(acc.evicted, r.evicted)])
    ELSE [acc EXCEPT !.c = c]

\* SieveCache::insert that leaves the hand alone when it replaces a key.
SieveInsertNoFix(c, key, value, t) ==
    LET c1 == IF key \in DOMAIN c.map
              THEN [c EXCEPT !.arena = ArenaRemove(c.arena, c.map[key]).arena,
                             !.map = MapRemove(c.map, key)]
              ELSE c
        e  == SieveEvictWhile(c1, t, c.capacity + 1,
                  [c |-> c1, scans |-> <<>>, evicted |-> <<>>, diverged |-> FALSE])
        p  == PushHead(e.c.arena, NodeNew(key, value))
    IN  IF e.diverged
        THEN e
        ELSE [e EXCEPT !.c = IF p.index # NIL
                             THEN [e.c EXCEPT !.arena = p.arena,
                                              !.map = MapInsert(e.c.map, key, p.index)]
                             ELSE e.c]

\* SieveCache::insert
SieveInsert(c, key, value, t) ==
    LET c1 == IF key \in DOMAIN c.map
              THEN LET old_index == c.map[key]
                       node == ArenaGet(c.arena, old_index)
                   IN  [c EXCEPT !.hand = IF c.hand = old_index THEN node.prev ELSE c.hand,
                                 !.arena = ArenaRemove(c.arena, old_index).arena,
                                 !.map = MapRemove(c.map, key)]
              ELSE c
        e  == SieveEvictWhile(c1, t, c.capacity + 1,
                  [c |-> c1, scans |-> <<>>, evicted |-> <<>>, diverged |-> FALSE])
        p  == PushHead(e.c.arena, NodeNew(key, value))
    IN  IF e.diverged
        THEN e
        ELSE [e EXCEPT !.c = IF p.index # NIL
                             THEN [e.c EXCEPT !.arena = p.arena,
                                              !.map = MapInsert(e.c.map, key, p.index)]
                             ELSE e.c]

\* SieveCache::remove without the hand fix.
SieveRemoveNoFix(c, key) ==
    IF key \in DOMAIN c.map
    THEN [c |-> [c EXCEPT !.map = MapRemove(c.map, key),
                          !.arena = ArenaRemove(c.arena, c.map[key]).arena],
          result |-> TRUE]
    ELSE [c |-> c, result |-> FALSE]

\* SieveCache::remove
SieveRemove(c, key) ==
    IF key \in DOMAIN c.map
    THEN LET index == c.map[key]
             node  == ArenaGet(c.arena, index)
         IN  [c |-> [c EXCEPT !.map = MapRemove(c.map, key),
                              !.hand = IF c.hand = index THEN node.prev ELSE c.hand,
                              !.arena = ArenaRemove(c.arena, index).arena],
              result |-> TRUE]
    ELSE [c |-> c, result |-> FALSE]

(***************************************************************************)
(* lru.rs                                                                   *)
(***************************************************************************)
\* LruCache::new
LruNew(capacity) ==
    IF ~(capacity > 0) THEN Refused ELSE
    [arena     |-> ArenaNew(capacity),
     map       |-> [k \in {} |-> 0],
     capacity  |-> capacity,
     hits      |-> 0,
     misses    |-> 0,
     evictions |-> 0]

\* LruCache::get without the promotion to head.
LruGetNoPromote(c, key, t) ==
    IF key \in DOMAIN c.map
    THEN LET index == c.map[key]
             node  == ArenaGet(c.arena, index)
         IN  IF IsExpired(node.value, t)
             THEN [c |-> [c EXCEPT !.misses = c.misses + 1,
                                   !.map = MapRemove(c.map, key),
                                   !.arena = ArenaRemove(c.arena, index).arena],
                   result |-> None]
             ELSE [c |-> [c EXCEPT !.hits = c.hits + 1], result |-> node.value]
    ELSE [c |-> [c EXCEPT !.misses = c.misses + 1], result |-> None]

\* LruCache::get that does not count the miss of an expired entry.
LruGetExpiredUncounted(c, key, t) ==
    IF key \in DOMAIN c.map
    THEN LET index == c.map[key]
             node  == ArenaGet(c.arena, index)
         IN  IF IsExpired(node.value, t)
             THEN [c |-> [c EXCEPT !.map = MapRemove(c.map, key),
                                   !.arena = ArenaRemove(c.arena, index).arena],
                   result |-> None]
             ELSE [c |-> [c EXCEPT !.hits = c.hits + 1,
                                   !.arena = MoveToHead(c.arena, index)],
                   result |-> node.value]
    ELSE [c |-> [c EXCEPT !.misses = c.misses + 1], result |-> None]

\* LruCache::get
LruGet(c, key, t) ==
    IF key \in DOMAIN c.map
    THEN LET index == c.map[key]
             node  == ArenaGet(c.arena, index)
         IN  IF IsExpired(node.value, t)
             THEN [c |-> [c EXCEPT !.misses = c.misses + 1,
                                   !.map = MapRemove(c.map, key),
                                   !.arena = ArenaRemove(c.arena, index).arena],
                   result |-> None]
             ELSE [c |-> [c EXCEPT !.hits = c.hits + 1,
                                   !.arena = MoveToHead(c.arena, index)],
                   result |-> node.value]
    ELSE [c |-> [c EXCEPT !.misses = c.misses + 1], result |-> None]

\* The `while self.arena.len() >= self.capacity` loop of LruCache::insert,
\* which breaks when pop_tail returns None; it gives up (diverged) after fuel
\* iterations.
RECURSIVE LruEvictWhile(_, _, _)
LruEvictWhile(c, fuel, acc) ==
    IF c.arena.len >= c.capacity
    THEN IF fuel = 0
         THEN [acc EXCEPT !.c = c, !.diverged = TRUE]
         ELSE LET r == PopTail(c.arena)
              IN  IF r.index # NIL
                  THEN LruEvictWhile(
                           [c EXCEPT !.arena = r.arena,
                                     !.map = MapRemove(c.map, r.node.key),
                                     !.evictions = c.evictions + 1],
                           fuel - 1,
                           [acc EXCEPT !.evicted = Append(acc.evicted, r.node.key)])
                  ELSE [acc EXCEPT !.c = c]
    ELSE [acc EXCEPT !.c = c]

\* LruCache::insert that makes room before it removes the old entry of the key.
LruInsertEvictFirst(c, key, value, t) ==
    LET e0 == LruEvictWhile(c, c.capacity + 1,
                  [c |-> c, scans |-> <<>>, evicted |-> <<>>, diverged |-> FALSE])
        c1 == IF key \in DOMAIN e0.c.map
              THEN [e0.c EXCEPT !.arena = ArenaRemove(e0.c.arena, e0.c.map[key]).arena,
                                !.map = MapRemove(e0.c.map, key)]
              ELSE e0.c
        p  == PushHead(c1.arena, NodeNew(key, value))
    IN  IF e0.diverged
        THEN e0
        ELSE [e0 EXCEPT !.c = IF p.index # NIL
                              THEN [c1 EXCEPT !.arena = p.arena,
                                              !.map = MapInsert(c1.map, key, p.index)]
                              ELSE c1]

\* LruCache::insert
LruInsert(c, key, value, t) ==
    LET c1 == IF key \in DOMAIN c.map
              THEN [c EXCEPT !.arena = ArenaRemove(c.arena, c.map[key]).arena,
                             !.map = MapRemove(c.map, key)]
              ELSE c
        e  == LruEvictWhile(c1, c.capacity + 1,
                  [c |-> c1, scans |-> <<>>, evicted |-> <<>>, diverged |-> FALSE])
        p  == PushHead(e.c.arena, NodeNew(key, value))
    IN  IF e.diverged
        THEN e
        ELSE [e EXCEPT !.c = IF p.index # NIL
                             THEN [e.c EXCEPT !.arena = p.arena,
                                              !.map = MapInsert(e.c.map, key, p.index)]
                             ELSE e.c]

\* LruCache::remove
LruRemove(c, key) ==
    IF key \in DOMAIN c.map
    THEN [c |-> [c EXCEPT !.map = MapRemove(c.map, key),
                          !.arena = ArenaRemove(c.arena, c.map[key]).arena],
          result |-> TRUE]
    ELSE [c |-> c, result |-> FALSE]

(***************************************************************************)
(* fifo.rs                                                                  *)
(***************************************************************************)
\* FifoCache::new
FifoNew(capacity) ==
    IF ~(capacity > 0) THEN Refused ELSE
    [arena     |-> ArenaNew(capacity),
     map       |-> [k \in {} |-> 0],
     capacity  |-> capacity,
     hits      |-> 0,
     misses    |-> 0,
     evictions |-> 0]

\* FifoCache::get that promotes the node on a hit.
FifoGetPromote(c, key, t) ==
    IF key \in DOMAIN c.map
    THEN LET index == c.map[key]
             node  == ArenaGet(c.arena, index)
         IN  IF IsExpired(node.value, t)
             THEN [c |-> [c EXCEPT !.misses = c.misses + 1,
                                   !.map = MapRemove(c.map, key),
                                   !.arena = ArenaRemove(c.arena, index).arena],
                   result |-> None]
             ELSE [c |-> [c EXCEPT !.hits = c.hits + 1,
                                   !.arena = MoveToHead(c.arena, index)],
                   result |-> node.value]
    ELSE [c |-> [c EXCEPT !.misses = c.misses + 1], result |-> None]

\* FifoCache::get
FifoGet(c, key, t) ==
    IF key \in DOMAIN c.map
    THEN LET index == c.map[key]
             node  == ArenaGet(c.arena, index)
         IN  IF IsExpired(node.value, t)
             THEN [c |-> [c EXCEPT !.misses = c.misses + 1,
                                   !.map = MapRemove(c.map, key),
                                   !.arena = ArenaRemove(c.arena, index).arena],
                   result |-> None]
             ELSE [c |-> [c EXCEPT !.hits = c.hits + 1], result |-> node.value]
    ELSE [c |-> [c EXCEPT !.misses = c.misses + 1], result |-> None]

\* The eviction loop of FifoCache::insert that makes room for two.
RECURSIVE FifoEvictWhileEager(_, _, _)
FifoEvictWhileEager(c, fuel, acc) ==
    IF c.arena.len + 1 >= c.capacity
    THEN IF fuel = 0
         THEN [acc EXCEPT !.c = c, !.diverged = TRUE]
         ELSE LET r == PopTail(c.arena)
              IN  IF r.index # NIL
                  THEN FifoEvictWhileEager(
                           [c EXCEPT !.arena = r.arena,
                                     !.map = MapRemove(c.map, r.node.key),
                                     !.evictions = c.evictions + 1],
                           fuel - 1,
                           [acc EXCEPT !.evicted = Append(acc.evicted, r.node.key)])
                  ELSE [acc EXCEPT !.c = c]
    ELSE [acc EXCEPT !.c = c]

\* The `while self.arena.len() >= self.capacity` loop of FifoCache::insert,
\* which breaks when pop_tail returns None; it gives up (diverged) after fuel
\* iterations.
RECURSIVE FifoEvictWhile(_, _, _)
FifoEvictWhile(c, fuel, acc) ==
    IF c.arena.len >= c.capacity
    THEN IF fuel = 0
         THEN [acc EXCEPT !.c = c, !.diverged = TRUE]
         ELSE LET r == PopTail(c.arena)
              IN  IF r.index # NIL
                  THEN FifoEvictWhile(
                           [c EXCEPT !.arena = r.arena,
                                     !.map = MapRemove(c.map, r.node.key),
                                     !.evictions = c.evictions + 1],
                           fuel - 1,
                           [acc EXCEPT !.evicted = Append(acc.evicted, r.node.key)])
                  ELSE [acc EXCEPT !.c = c]
    ELSE [acc EXCEPT !.c = c]

\* FifoCache::insert
FifoInsert(c, key, value, t) ==
    LET c1 == IF key \in DOMAIN c.map
              THEN [c EXCEPT !.arena = ArenaRemove(c.arena, c.map[key]).arena,
                             !.map = MapRemove(c.map, key)]
              ELSE c
        e  == FifoEvictWhile(c1, c.capacity + 1,
                  [c |-> c1, scans |-> <<>>, evicted |-> <<>>, diverged |-> FALSE])
        p  == PushHead(e.c.arena, NodeNew(key, value))
    IN  IF e.diverged
        THEN e
        ELSE [e EXCEPT !.c = IF p.index # NIL
                             THEN [e.c EXCEPT !.arena = p.arena,
                                              !.map = MapInsert(e.c.map, key, p.index)]
                             ELSE e.c]

\* FifoCache::remove that forgets the key but leaves its node in the arena.
FifoRemoveMapOnly(c, key) ==
    IF key \in DOMAIN c.map
    THEN [c |-> [c EXCEPT !.map = MapRemove(c.map, key)], result |-> TRUE]
    ELSE [c |-> c, result |-> FALSE]

\* FifoCache::remove
FifoRemove(c, key) ==
    IF key \in DOMAIN c.map
    THEN [c |-> [c EXCEPT !.map = MapRemove(c.map, key),
                          !.arena = ArenaRemove(c.arena, c.map[key]).arena],
          result |-> TRUE]
    ELSE [c |-> c, result |-> FALSE]

(***************************************************************************)
(* traits.rs: the CachePolicy interface, dispatched on the policy in use.  *)
(***************************************************************************)
PolicyNew(p, capacity) ==
    CASE p = "SIEVE" -> SieveNew(capacity)
      [] p = "LRU"   -> LruNew(capacity)
      [] p = "FIFO"  -> FifoNew(capacity)

PolicyGet(p, c, key, t) ==
    CASE p = "SIEVE" -> SieveGet(c, key, t)
      [] p = "LRU"   -> LruGet(c, key, t)
      [] p = "FIFO"  -> FifoGet(c, key, t)

PolicyInsert(p, c, key, value, t) ==
    CASE p = "SIEVE" -> SieveInsert(c, key, value, t)
      [] p = "LRU"   -> LruInsert(c, key, value, t)
      [] p = "FIFO"  -> FifoInsert(c, key, value, t)

PolicyRemove(p, c, key) ==
    CASE p = "SIEVE" -> SieveRemove(c, key)
      [] p = "LRU"   -> LruRemove(c, key)
      [] p = "FIFO"  -> FifoRemove(c, key)

\* CachePolicy::len
PolicyLen(c) == c.arena.len

(***************************************************************************)
(* Helpers for reading a state.                                            *)
(***************************************************************************)
\* The keys of the list, following next from head.
RECURSIVE Walk(_, _, _)
Walk(a, index, fuel) ==
    IF index = NIL \/ fuel = 0 \/ ArenaGet(a, index) = None
    THEN <<>>
    ELSE <<a.slots[index].key>> \o Walk(a, a.slots[index].next, fuel - 1)

ListKeys(a) == Walk(a, a.head, Len(a.free_list) + a.len + 1)

Occupied(a) == {i \in DOMAIN a.slots : a.slots[i] # None}

SeqRange(s) == {s[i] : i \in 1..Len(s)}

Filter(s, S) == LET keep(x) == x \in S IN SelectSeq(s, keep)

SumLen(ss) == LET RECURSIVE go(_)
                  go(i) == IF i > Len(ss) THEN 0 ELSE Len(ss[i]) + go(i + 1)
              IN  go(1)

(***************************************************************************)
(* The state machine: one policy instance of some capacity, driven by any  *)
(* sequence of get, insert and remove calls while the clock advances.      *)
(* byInsert and byUse are history variables: the present keys from the     *)
(* most to the least recently inserted, resp. inserted or returned by get. *)
(***************************************************************************)
Touch(s, key, present) ==
    IF key \in present
    THEN <<key>> \o Filter(s, present \ {key})
    ELSE Filter(s, present)

Init ==
    /\ policy \in Policies
    /\ \E capacity \in Capacities : cache = PolicyNew(policy, capacity)
    /\ now = 0
    /\ byInsert = <<>>
    /\ byUse = <<>>
    /\ unhit = Unused
    /\ ArenaUnused
    /\ ShardsUnused
    /\ LayerUnused

Get(key) ==
    /\ cache.hits < MaxCount
    /\ cache.misses < MaxCount
    /\ LET r == PolicyGet(policy, cache, key, now)
       IN  /\ cache' = r.c
           /\ byInsert' = Filter(byInsert, DOMAIN r.c.map)
           /\ byUse' = IF r.result # None
                       THEN Touch(byUse, key, DOMAIN r.c.map)
                       ELSE Filter(byUse, DOMAIN r.c.map)
    /\ UNCHANGED <<policy, now, unhit, arenaVars, shardVars, layerVars>>

Insert(key, value) ==
    /\ cache.evictions < MaxCount
    /\ LET r == PolicyInsert(policy, cache, key, value, now)
       IN  /\ ~r.diverged
           /\ cache' = r.c
           /\ byInsert' = Touch(byInsert, key, DOMAIN r.c.map)
           /\ byUse' = Touch(byUse, key, DOMAIN r.c.map)
    /\ UNCHANGED <<policy, now, unhit, arenaVars, shardVars, layerVars>>

Remove(key) ==
    /\ LET r == PolicyRemove(policy, cache, key)
       IN  /\ cache' = r.c
           /\ byInsert' = Filter(byInsert, DOMAIN r.c.map)
           /\ byUse' = Filter(byUse, DOMAIN r.c.map)
    /\ UNCHANGED <<policy, now, unhit, arenaVars, shardVars, layerVars>>

\* The monotonic clock (Instant) advances between calls.
Tick ==
    /\ now < MaxTime
    /\ now' = now + 1
    /\ UNCHANGED <<policy, cache, byInsert, byUse, unhit, arenaVars, shardVars, layerVars>>

Next ==
    \/ \E key \in Keys : Get(key)
    \/ \E key \in Keys : \E value \in Values(now) : Insert(key, value)
    \/ \E key \in Keys : Remove(key)
    \/ Tick

Spec == Init /\ [][Next]_vars

(***************************************************************************)
(* A second specification: one SIEVE instance of capacity 3 over four      *)
(* keys, so that the hand can rest inside the list (neither NIL nor tail). *)
(* The clock stands at its last reading; a response is inserted with ttl 0 *)
(* either fresh (age 0) or already expired (age 1), as the tests do.       *)
(***************************************************************************)
InitSieve ==
    /\ policy = "SIEVE"
    /\ cache = PolicyNew(policy, SieveCapacity)
    /\ now = MaxTime
    /\ byInsert = <<>>
    /\ byUse = <<>>
    /\ unhit = Unused
    /\ ArenaUnused
    /\ ShardsUnused
    /\ LayerUnused

NextSieve ==
    \/ \E key \in SieveKeys : Get(key)
    \/ \E key \in SieveKeys : \E age \in Ages :
           Insert(key, [inserted_at |-> now - age, ttl |-> 0])
    \/ \E key \in SieveKeys : Remove(key)

SpecSieve == InitSieve /\ [][NextSieve]_vars

(***************************************************************************)
(* A further specification: one SIEVE instance with the history variable   *)
(* unhit, which maps every present key that no get has returned since its  *)
(* last insert to the value the evictions counter had when that insert     *)
(* returned.                                                               *)
(***************************************************************************)
\* unhit after a call that leaves the keys in present, returned hit from a
\* get and inserted new (NoKey when the call did neither).
Unhit(present, hit, new, evictions) ==
    [k \in (((DOMAIN unhit) \cap present) \ {hit, new}) \cup ({new} \cap present) |->
        IF k = new THEN evictions ELSE unhit[k]]

InitAge ==
    /\ policy = "SIEVE"
    /\ \E capacity \in Capacities : cache = PolicyNew(policy, capacity)
    /\ now = 0
    /\ byInsert = <<>>
    /\ byUse = <<>>
    /\ unhit = [k \in {} |-> 0]
    /\ ArenaUnused
    /\ ShardsUnused
    /\ LayerUnused

AgedGet(key) ==
    /\ cache.hits < MaxCount
    /\ cache.misses < MaxCount
    /\ LET r == SieveGet(cache, key, now)
       IN  /\ cache' = r.c
           /\ unhit' = Unhit(DOMAIN r.c.map,
                             IF r.result # None THEN key ELSE NoKey, NoKey,
                             r.c.evictions)
    /\ UNCHANGED <<policy, now, byInsert, byUse, arenaVars, shardVars, layerVars>>

AgedInsert(key, value) ==
    /\ cache.evictions < MaxCount
    /\ LET r == SieveInsert(cache, key, value, now)
       IN  /\ ~r.diverged
           /\ cache' = r.c
           /\ unhit' = Unhit(DOMAIN r.c.map, NoKey, key, r.c.evictions)
    /\ UNCHANGED <<policy, now, byInsert, byUse, arenaVars, shardVars, layerVars>>

AgedRemove(key) ==
    /\ LET r == SieveRemove(cache, key)
       IN  /\ cache' = r.c
           /\ unhit' = Unhit(DOMAIN r.c.map, NoKey, NoKey, r.c.evictions)
    /\ UNCHANGED <<policy, now, byInsert, byUse, arenaVars, shardVars, layerVars>>

NextAge ==
    \/ \E key \in Keys : AgedGet(key)
    \/ \E key \in Keys : \E value \in Values(now) : AgedInsert(key, value)
    \/ \E key \in Keys : AgedRemove(key)
    \/ Tick

SpecAge == InitAge /\ [][NextAge]_vars

(***************************************************************************)
(* A third specification: one arena of some capacity driven through its    *)
(* own interface by any sequence of push_head, remove, move_to_head and    *)
(* pop_tail calls.  remove is called on any slot index below the capacity  *)
(* (on an empty slot it returns None); move_to_head is called on occupied  *)
(* slots only, as its unwrap requires.  handed is a history variable: for  *)
(* each index returned by push_head and not removed since, the key and the *)
(* value of the node that was pushed.  arenaCap is the capacity given to   *)
(* Arena::new.                                                             *)
(***************************************************************************)
InitArena ==
    /\ arenaCap \in ArenaCapacities
    /\ arena = ArenaNew(arenaCap)
    /\ handed = [i \in {} |-> 0]
    /\ CacheUnused
    /\ ShardsUnused
    /\ LayerUnused

ArenaPushHead(key, value) ==
    /\ LET r == PushHead(arena, NodeNew(key, value))
       IN  /\ arena' = r.arena
           /\ handed' = IF r.index # NIL
                        THEN MapInsert(handed, r.index, [key |-> key, value |-> value])
                        ELSE handed
    /\ UNCHANGED <<arenaCap, cacheVars, shardVars, layerVars>>

ArenaRemoveAt(index) ==
    /\ LET r == ArenaRemove(arena, index)
       IN  /\ arena' = r.arena
           /\ handed' = IF r.node # None THEN MapRemove(handed, index) ELSE handed
    /\ UNCHANGED <<arenaCap, cacheVars, shardVars, layerVars>>

ArenaMoveToHead(index) ==
    /\ ArenaGet(arena, index) # None
    /\ arena' = MoveToHead(arena, index)
    /\ UNCHANGED <<arenaCap, handed, cacheVars, shardVars, layerVars>>

ArenaPopTail ==
    /\ LET r == PopTail(arena)
       IN  /\ arena' = r.arena
           /\ handed' = IF r.index # NIL THEN MapRemove(handed, r.index) ELSE handed
    /\ UNCHANGED <<arenaCap, cacheVars, shardVars, layerVars>>

NextArena ==
    \/ \E key \in Keys : \E value \in Values(0) : ArenaPushHead(key, value)
    \/ \E index \in 0..(arenaCap - 1) : ArenaRemoveAt(index)
    \/ \E index \in 0..(arenaCap - 1) : ArenaMoveToHead(index)
    \/ ArenaPopTail

SpecArena == InitArena /\ [][NextArena]_vars

(***************************************************************************)
(* sharded.rs                                                              *)
(*                                                                         *)
(* A fourth specification: a ShardedCache shared by two worker threads     *)
(* that call get, insert and remove and one thread that calls len and      *)
(* stats.  A call on a key takes the write lock of the key's shard         *)
(* (WriteLock), runs the policy's method on the shard it finds there, and  *)
(* stores the result and releases the lock when it returns (ShardedGet,    *)
(* ShardedInsert, ShardedRemove).  Until WriteLock has returned the call   *)
(* has used nothing of its key but the shard index, so the thread's state  *)
(* holds that index and the key is drawn when the method runs.  len and    *)
(* stats visit the shards in index order, holding one read lock at a time. *)
(* Of the NUM_SHARDS shards the state holds those the keys of the run hash *)
(* to; the others stay as constructed (empty, all counters 0).             *)
(***************************************************************************)
NUM_SHARDS == 64

\* hash_one(key): the three keys stand for two keys whose hashes agree in
\* their low six bits and one whose hash differs there.
HashOne(key) ==
    CASE key = "a" -> 64
      [] key = "b" -> 128
      [] key = "c" -> 193

\* ShardedCache::shard_index: hash & SHARD_MASK with SHARD_MASK = NUM_SHARDS - 1.
ShardIndex(key) == HashOne(key) % NUM_SHARDS

ShardIds == {ShardIndex(key) : key \in Keys}

\* per_shard without the `.max(1)`.
PerShardNoMax(total_capacity) == total_capacity \div NUM_SHARDS

\* per_shard of ShardedCache::new
PerShard(total_capacity) ==
    IF total_capacity \div NUM_SHARDS >= 1 THEN total_capacity \div NUM_SHARDS ELSE 1

\* ShardedCache::new, restricted to the shards in ShardIds.
ShardedNew(total_capacity, p) ==
    [idx \in ShardIds |-> PolicyNew(p, PerShard(total_capacity))]

\* The shard visited at position pos of shards.iter(), counting the shards
\* in ShardIds only.
ShardAt(pos) ==
    CHOOSE idx \in ShardIds : Cardinality({other \in ShardIds : other < idx}) = pos - 1

\* capacity() that returns the capacity of the first shard instead of the sum.
ShardedCapacityFirstShard(sh) == sh[ShardAt(1)].capacity

\* ShardedCache::capacity: the sum of the shards' capacities, which no call
\* changes after construction; every shard has the capacity of the first.
ShardedCapacity(sh) ==
    LET RECURSIVE sum(_)
        sum(pos) == IF pos > Cardinality(ShardIds) THEN 0
                    ELSE sh[ShardAt(pos)].capacity + sum(pos + 1)
    IN  sum(1) + (NUM_SHARDS - Cardinality(ShardIds)) * sh[ShardAt(1)].capacity

\* CachePolicy::stats
PolicyStats(c) ==
    [hits |-> c.hits, misses |-> c.misses, evictions |-> c.evictions,
     current_size |-> c.arena.len, capacity |-> c.capacity]

\* CacheStats::default()
StatsDefault ==
    [hits |-> 0, misses |-> 0, evictions |-> 0, current_size |-> 0, capacity |-> 0]

\* The loop body of stats that leaves the misses out of the sum.
AddStatsNoMisses(total, st) ==
    [hits         |-> total.hits + st.hits,
     misses       |-> total.misses,
     evictions    |-> total.evictions + st.evictions,
     current_size |-> total.current_size + st.current_size,
     capacity     |-> total.capacity + st.capacity]

\* The body of the loop of ShardedCache::stats.
AddStats(total, st) ==
    [hits         |-> total.hits + st.hits,
     misses       |-> total.misses + st.misses,
     evictions    |-> total.evictions + st.evictions,
     current_size |-> total.current_size + st.current_size,
     capacity     |-> total.capacity + st.capacity]

\* One term of the sum of ShardedCache::len.
AddLen(total, c) == [total EXCEPT !.current_size = total.current_size + PolicyLen(c)]

\* A write lock that excludes readers but not another writer.
CanWriteShared(lock) == lock.readers = {}

\* A write lock that is granted without waiting.
CanWriteNoWait(lock) == lock.writer \in Workers \cup {NoThread}

\* RwLock::write returns when no thread holds the lock.
CanWrite(lock) == lock.writer = NoThread /\ lock.readers = {}

\* A read lock that is granted while a writer holds the lock.
CanReadDuringWrite(lock) == lock.writer \in Workers \cup {NoThread}

\* RwLock::read returns when no writer holds the lock.
CanRead(lock) == lock.writer = NoThread

Unlocked == [writer |-> NoThread, readers |-> {}]
Idle == [idx |-> NIL, shard |-> None]
ReaderIdle(last) ==
    [call |-> "idle", pos |-> 0, held |-> FALSE, seen |-> None,
     total |-> StatsDefault, last |-> last]

InitSharded ==
    /\ policy \in Policies
    /\ \E total_capacity \in TotalCapacities :
           /\ shards = ShardedNew(total_capacity, policy)
           /\ lin = ShardedNew(total_capacity, policy)
           /\ issued = [calls |-> 0, reads |-> 0, gets |-> 0,
                        total_capacity |-> total_capacity]
    /\ locks = [idx \in ShardIds |-> Unlocked]
    /\ threads = [w \in Workers |-> Idle]
    /\ reader = ReaderIdle([stats |-> StatsDefault, len |-> 0])
    /\ now = MaxTime
    /\ cache = Unused
    /\ byInsert = Unused
    /\ byUse = Unused
    /\ unhit = Unused
    /\ ArenaUnused
    /\ LayerUnused

\* `self.shards[idx].write()` of get, insert and remove.
WriteLock(w, idx) ==
    /\ threads[w] = Idle
    /\ issued.calls < MaxCalls
    /\ CanWrite(locks[idx])
    /\ locks' = [locks EXCEPT ![idx].writer = w]
    /\ threads' = [threads EXCEPT ![w] = [idx |-> idx, shard |-> shards[idx]]]
    /\ issued' = [issued EXCEPT !.calls = issued.calls + 1]
    /\ UNCHANGED <<shards, reader, lin, cacheVars, arenaVars, layerVars>>

\* The shard and the lock after a call of w has run its method to the
\* result r and dropped the guard; lin applies the same method to the
\* outcome of the calls that returned before.  issued.gets counts the get
\* calls that have returned.
Return(w, r, l) ==
    /\ threads[w].shard # None
    /\ shards' = [shards EXCEPT ![threads[w].idx] = r.c]
    /\ lin' = [lin EXCEPT ![threads[w].idx] = l.c]
    /\ locks' = [locks EXCEPT ![threads[w].idx].writer = NoThread]
    /\ threads' = [threads EXCEPT ![w] = Idle]
    /\ UNCHANGED <<reader, cacheVars, arenaVars, layerVars>>

\* ShardedCache::get, from `shard.get(key)` on.
ShardedGet(w, key) ==
    /\ threads[w].idx = ShardIndex(key)
    /\ Return(w, PolicyGet(policy, threads[w].shard, key, now),
                 PolicyGet(policy, lin[ShardIndex(key)], key, now))
    /\ issued' = [issued EXCEPT !.gets = issued.gets + 1]

\* ShardedCache::insert that stores the entry in whichever shard the thread
\* has locked, whatever the key's hash.
ShardedInsertAnyShard(w, key, value) ==
    /\ threads[w].shard # None
    /\ ~PolicyInsert(policy, threads[w].shard, key, value, now).diverged
    /\ Return(w, PolicyInsert(policy, threads[w].shard, key, value, now),
                 PolicyInsert(policy, lin[threads[w].idx], key, value, now))
    /\ UNCHANGED issued

\* ShardedCache::insert, from `shard.insert(key, value)` on.
ShardedInsert(w, key, value) ==
    /\ threads[w].idx = ShardIndex(key)
    /\ threads[w].shard # None
    /\ ~PolicyInsert(policy, threads[w].shard, key, value, now).diverged
    /\ Return(w, PolicyInsert(policy, threads[w].shard, key, value, now),
                 PolicyInsert(policy, lin[ShardIndex(key)], key, value, now))
    /\ UNCHANGED issued

\* ShardedCache::remove, from `shard.remove(key)` on.
ShardedRemove(w, key) ==
    /\ threads[w].idx = ShardIndex(key)
    /\ Return(w, PolicyRemove(policy, threads[w].shard, key),
                 PolicyRemove(policy, lin[ShardIndex(key)], key))
    /\ UNCHANGED issued

\* The reader enters len() or stats().  The shards outside ShardIds are
\* empty: each adds its capacity to the total of stats and nothing else.
ReaderCall(call) ==
    /\ reader.call = "idle"
    /\ issued.reads < MaxReads
    /\ reader' = [reader EXCEPT
           !.call = call,
           !.pos = 1,
           !.total = IF call = "stats"
                     THEN [StatsDefault EXCEPT !.capacity =
                              (NUM_SHARDS - Cardinality(ShardIds))
                                  * shards[ShardAt(1)].capacity]
                     ELSE StatsDefault]
    /\ issued' = [issued EXCEPT !.reads = issued.reads + 1]
    /\ UNCHANGED <<shards, locks, threads, lin, cacheVars, arenaVars, layerVars>>

\* A read guard that outlives its statement.
ReadGuardKept(lock) == lock

\* The drop of the temporary read guard at the end of `s.read().len()` and
\* `shard.read().stats()`.
ReadGuardDrop(lock) == [lock EXCEPT !.readers = @ \ {Reader}]

\* `shard.read()` of len and stats on the next shard.
ReadLock ==
    /\ reader.call # "idle"
    /\ ~reader.held
    /\ LET idx == ShardAt(reader.pos)
       IN  /\ CanRead(locks[idx])
           /\ locks' = [locks EXCEPT ![idx].readers = @ \cup {Reader}]
           /\ reader' = [reader EXCEPT !.held = TRUE, !.seen = shards[idx]]
    /\ UNCHANGED <<shards, threads, lin, issued, cacheVars, arenaVars, layerVars>>

\* `.len()` resp. `.stats()` under the read guard, the guard's drop, and the
\* return of the call after the last shard.
ReadUnlock ==
    /\ reader.held
    /\ LET idx   == ShardAt(reader.pos)
           total == IF reader.call = "stats"
                    THEN AddStats(reader.total, PolicyStats(reader.seen))
                    ELSE AddLen(reader.total, reader.seen)
       IN  /\ locks' = [locks EXCEPT ![idx] = ReadGuardDrop(@)]
           /\ reader' =
                  IF reader.pos < Cardinality(ShardIds)
                  THEN [reader EXCEPT !.held = FALSE, !.seen = None,
                                      !.pos = reader.pos + 1, !.total = total]
                  ELSE ReaderIdle(IF reader.call = "stats"
                                  THEN [reader.last EXCEPT !.stats = total]
                                  ELSE [reader.last EXCEPT !.len = total.current_size])
    /\ UNCHANGED <<shards, threads, lin, issued, cacheVars, arenaVars, layerVars>>

NextSharded ==
    \/ \E w \in Workers : \E idx \in ShardIds : WriteLock(w, idx)
    \/ \E w \in Workers : \E key \in Keys : ShardedGet(w, key)
    \/ \E w \in Workers : \E key \in Keys : \E age \in Ages :
           ShardedInsert(w, key, [inserted_at |-> now - age, ttl |-> 0])
    \/ \E w \in Workers : \E key \in Keys : ShardedRemove(w, key)
    \/ \E call \in {"len", "stats"} : ReaderCall(call)
    \/ ReadLock
    \/ ReadUnlock

SpecSharded == InitSharded /\ [][NextSharded]_vars

(***************************************************************************)
(* sharded.rs, tests::concurrent_access: the main thread pre-populates the *)
(* cache, spawns the threads, each of which issues OpsPerThread            *)
(* operations (an insert when i % 3 = 0, a get otherwise), joins them and  *)
(* reads len() and stats().  reader is the main thread, issued[w] the loop *)
(* counter i of thread w, lin the number of calls of each kind made.       *)
(***************************************************************************)
\* stats() and len() called while no other thread runs.
ShardedStats(sh) ==
    LET RECURSIVE sum(_)
        sum(pos) == IF pos = 0
                    THEN [StatsDefault EXCEPT !.capacity =
                             (NUM_SHARDS - Cardinality(ShardIds))
                                 * sh[ShardAt(1)].capacity]
                    ELSE AddStats(sum(pos - 1), PolicyStats(sh[ShardAt(pos)]))
    IN  sum(Cardinality(ShardIds))

\* ShardedCache::len called while no other thread runs; the shards outside
\* ShardIds are empty.
ShardedLen(sh) ==
    LET RECURSIVE sum(_)
        sum(pos) == IF pos = 0 THEN 0 ELSE sum(pos - 1) + PolicyLen(sh[ShardAt(pos)])
    IN  sum(Cardinality(ShardIds))

\* `if i % 3 == 0` of the loop of a thread.
IsInsertTurn(i) == i % 3 = 0

\* resp(): a response without expiry, built at the time of the call.
Resp == [inserted_at |-> now, ttl |-> 0]

InitS7 ==
    /\ policy \in Policies
    /\ \E total_capacity \in TotalCapacities :
           shards = ShardedNew(total_capacity, policy)
    /\ locks = [idx \in ShardIds |-> Unlocked]
    /\ threads = [w \in Workers |-> Idle]
    /\ reader = [ReaderIdle([stats |-> StatsDefault, len |-> 0])
                     EXCEPT !.call = "populate"]
    /\ issued = [w \in Workers |-> 0]
    /\ lin = [gets |-> 0, inserts |-> 0, populated |-> 0]
    /\ now = MaxTime
    /\ cache = Unused
    /\ byInsert = Unused
    /\ byUse = Unused
    /\ unhit = Unused
    /\ ArenaUnused
    /\ LayerUnused

\* One insert of the pre-population loop.
S7Populate(key) ==
    /\ reader.call = "populate"
    /\ lin.populated < MaxPopulate
    /\ LET idx == ShardIndex(key)
           r   == PolicyInsert(policy, shards[idx], key, Resp, now)
       IN  /\ ~r.diverged
           /\ shards' = [shards EXCEPT ![idx] = r.c]
    /\ lin' = [lin EXCEPT !.populated = lin.populated + 1]
    /\ UNCHANGED <<locks, threads, reader, issued, cacheVars, arenaVars, layerVars>>

\* thread::spawn of the threads.
S7Spawn ==
    /\ reader.call = "populate"
    /\ reader' = [reader EXCEPT !.call = "join"]
    /\ UNCHANGED <<shards, locks, threads, lin, issued, cacheVars, arenaVars, layerVars>>

\* `self.shards[idx].write()` of operation issued[w] of thread w.
S7Lock(w, idx) ==
    /\ reader.call = "join"
    /\ threads[w] = Idle
    /\ issued[w] < OpsPerThread
    /\ CanWrite(locks[idx])
    /\ locks' = [locks EXCEPT ![idx].writer = w]
    /\ threads' = [threads EXCEPT ![w] = [idx |-> idx, shard |-> shards[idx]]]
    /\ UNCHANGED <<shards, reader, lin, issued, cacheVars, arenaVars, layerVars>>

\* Operation issued[w] of thread w: cache.insert(key, resp()) or
\* cache.get(&key), from the method under the guard to the return.
S7Op(w, key) ==
    /\ threads[w].idx = ShardIndex(key)
    /\ threads[w].shard # None
    /\ LET r == IF IsInsertTurn(issued[w])
                THEN PolicyInsert(policy, threads[w].shard, key, Resp, now)
                ELSE PolicyGet(policy, threads[w].shard, key, now)
       IN  /\ IsInsertTurn(issued[w]) => ~r.diverged
           /\ shards' = [shards EXCEPT ![threads[w].idx] = r.c]
    /\ locks' = [locks EXCEPT ![threads[w].idx].writer = NoThread]
    /\ threads' = [threads EXCEPT ![w] = Idle]
    /\ issued' = [issued EXCEPT ![w] = issued[w] + 1]
    /\ lin' = IF IsInsertTurn(issued[w])
              THEN [lin EXCEPT !.inserts = lin.inserts + 1]
              ELSE [lin EXCEPT !.gets = lin.gets + 1]
    /\ UNCHANGED <<reader, cacheVars, arenaVars, layerVars>>

\* h.join() of every thread, then cache.len() and cache.stats().
S7Join ==
    /\ reader.call = "join"
    /\ \A w \in Workers : threads[w] = Idle /\ issued[w] = OpsPerThread
    /\ reader' = [reader EXCEPT
           !.call = "done",
           !.last = [stats |-> ShardedStats(shards),
                     len   |-> ShardedStats(shards).current_size]]
    /\ UNCHANGED <<shards, locks, threads, lin, issued, cacheVars, arenaVars, layerVars>>

NextS7 ==
    \/ \E key \in Keys : S7Populate(key)
    \/ S7Spawn
    \/ \E w \in Workers : \E idx \in ShardIds : S7Lock(w, idx)
    \/ \E w \in Workers : \E key \in Keys : S7Op(w, key)
    \/ S7Join

SpecS7 == InitS7 /\ [][NextS7]_vars

(***************************************************************************)
(* sharded.rs with the wait for the write lock made a step of its own: a   *)
(* worker enters a call, waits until the shard's lock is free, runs the    *)
(* method under the guard and returns.  One policy and one total capacity. *)
(***************************************************************************)
InitWaiting ==
    /\ InitSharded
    /\ policy = "LRU"
    /\ issued.total_capacity = 0

\* A worker enters get, insert or remove for a key of shard idx.
Enter(w, idx) ==
    /\ threads[w] = Idle
    /\ issued.calls < MaxEntered
    /\ threads' = [threads EXCEPT ![w] = [idx |-> idx, shard |-> None]]
    /\ issued' = [issued EXCEPT !.calls = issued.calls + 1]
    /\ UNCHANGED <<shards, locks, reader, lin, cacheVars, arenaVars, layerVars>>

\* `self.shards[idx].write()` returns the guard to the waiting worker.
Acquire(w) ==
    /\ threads[w].idx # NIL
    /\ threads[w].shard = None
    /\ CanWrite(locks[threads[w].idx])
    /\ locks' = [locks EXCEPT ![threads[w].idx].writer = w]
    /\ threads' = [threads EXCEPT ![w].shard = shards[threads[w].idx]]
    /\ UNCHANGED <<shards, reader, lin, issued, cacheVars, arenaVars, layerVars>>

\* The method of a worker under its guard, up to the return of the call.
Method(w) ==
    \/ \E key \in Keys : ShardedGet(w, key)
    \/ \E key \in Keys : \E age \in Ages :
           ShardedInsert(w, key, [inserted_at |-> now - age, ttl |-> 0])
    \/ \E key \in Keys : ShardedRemove(w, key)

\* The steps of calls that are under way.
Progress ==
    \/ \E w \in Workers : Acquire(w)
    \/ \E w \in Workers : Method(w)
    \/ ReadLock
    \/ ReadUnlock

NextWaiting ==
    \/ \E w \in Workers : \E idx \in ShardIds : Enter(w, idx)
    \/ \E w \in Workers : Acquire(w)
    \/ \E w \in Workers : Method(w)
    \/ \E call \in {"len", "stats"} : ReaderCall(call)
    \/ ReadLock
    \/ ReadUnlock

\* A thread that holds a guard runs on and drops it; parking_lot's RwLock
\* hands the lock to a waiting thread eventually.
FairSharded ==
    /\ InitWaiting
    /\ [][NextWaiting]_vars
    /\ \A w \in Workers : SF_vars(Acquire(w))
    /\ \A w \in Workers : WF_vars(Method(w))
    /\ SF_vars(ReadLock)
    /\ WF_vars(ReadUnlock)

(***************************************************************************)
(* cache_layer.rs, config.rs, main.rs: the CacheLayer behind the ArcSwap.  *)
(* layers is the heap of the layers built so far, cache_swap the index of  *)
(* the one the pointer refers to, current_config the config remembered by  *)
(* the watcher.  A call of get or insert loads the pointer once and then   *)
(* takes one step per inner cache; each inner cache is a ShardedCache,     *)
(* whose calls take effect atomically under the lock of their shard.       *)
(* default_ttl and max_body_size are not part of the state.  The fields    *)
(* primary_ops and comparison_ops of a layer record the calls its two      *)
(* caches have received; seen counts the calls made and remembers the      *)
(* start-up config, whether two calls ever overlapped and whether bench    *)
(* mode was ever set.                                                      *)
(***************************************************************************)
LayerCallers == {"p1", "p2"}
LayerKeys == {"a", "b"}
ConfigCapacities == {64, 128}
ConfigPolicies == {"sieve", "lru"}
ConfigComparisons == {"none", "lru"}
Configs ==
    [capacity : ConfigCapacities, eviction_policy : ConfigPolicies,
     comparison_policy : ConfigComparisons]

\* build_cache
BuildCache(policy_name, capacity) ==
    CASE policy_name = "sieve" ->
             [policy |-> "SIEVE", shards |-> ShardedNew(capacity, "SIEVE")]
      [] policy_name = "lru" ->
             [policy |-> "LRU", shards |-> ShardedNew(capacity, "LRU")]
      [] policy_name = "fifo" ->
             [policy |-> "FIFO", shards |-> ShardedNew(capacity, "FIFO")]

\* CacheLayer::new
CacheLayerNew(primary_policy, comparison_policy, capacity) ==
    [primary        |-> BuildCache(primary_policy, capacity),
     comparison     |-> IF comparison_policy = "none" THEN None
                        ELSE BuildCache(comparison_policy, capacity),
     demo_mode      |-> TRUE,
     primary_ops    |-> <<>>,
     comparison_ops |-> <<>>]

\* ShardedCache::get on an inner cache
InnerGet(inner, key, t) ==
    LET r == PolicyGet(inner.policy, inner.shards[ShardIndex(key)], key, t)
    IN  [inner  |-> [inner EXCEPT !.shards[ShardIndex(key)] = r.c],
         result |-> r.result]

\* ShardedCache::insert on an inner cache
InnerInsert(inner, key, value, t) ==
    [inner EXCEPT !.shards[ShardIndex(key)] =
         PolicyInsert(inner.policy, @, key, value, t).c]

\* is_demo_mode that is true in either mode.
IsDemoModeAlways(layer) == TRUE

\* CacheLayer::is_demo_mode
IsDemoMode(layer) == layer.demo_mode

\* A comparison lookup that is made only after a primary miss.
QueriesComparisonOnMiss(layer, primary_result) ==
    IsDemoMode(layer) /\ layer.comparison # None /\ primary_result = None

\* The conditions under which CacheLayer::get looks the key up in the
\* comparison cache.
QueriesComparison(layer, primary_result) ==
    IsDemoMode(layer) /\ layer.comparison # None

\* The layer a call works on when it reads the pointer again at each step.
LayerOfReloaded(c) == cache_swap

\* The layer a call works on: the one it loaded, `let cache = state.cache.load()`.
LayerOf(c) == callers[c].layer

NoCall ==
    [pc |-> "idle", layer |-> 0, op |-> "none", key |-> NoKey, value |-> None,
     primary_result |-> None, touched |-> {}, ret |-> None]

\* main: the layer built from the start-up config and put behind the
\* pointer, the watcher's copy of the config; max_calls and max_reloads
\* bound the calls and reloads of the run.
InitProxy(max_calls, max_reloads) ==
    /\ \E config \in Configs :
           /\ current_config = config
           /\ layers = <<CacheLayerNew(config.eviction_policy,
                                       config.comparison_policy, config.capacity)>>
           /\ seen = [calls |-> 0, reloads |-> 0, flips |-> 0, start |-> config,
                      overlap |-> FALSE, benched |-> FALSE,
                      max_calls |-> max_calls, max_reloads |-> max_reloads]
    /\ cache_swap = 1
    /\ callers = [c \in LayerCallers |-> NoCall]
    /\ parsed = Unused
    /\ now = MaxTime
    /\ policy = Unused
    /\ cache = Unused
    /\ byInsert = Unused
    /\ byUse = Unused
    /\ unhit = Unused
    /\ ArenaUnused
    /\ ShardsUnused

\* A connection starts a get or an insert: it loads the pointer.
LayerCall(c, op, key) ==
    /\ callers[c].pc = "idle"
    /\ seen.calls < seen.max_calls
    /\ callers' = [callers EXCEPT ![c] =
           [NoCall EXCEPT !.pc = IF op = "get" THEN "get_primary"
                                 ELSE "insert_comparison",
                          !.layer = cache_swap,
                          !.op = op,
                          !.key = key,
                          !.value = IF op = "get" THEN None
                                    ELSE [inserted_at |-> now, ttl |-> 1]]]
    /\ seen' = [seen EXCEPT
           !.calls = seen.calls + 1,
           !.overlap = seen.overlap
                          \/ \E d \in LayerCallers \ {c} : callers[d].pc # "idle"]
    /\ UNCHANGED <<layers, cache_swap, current_config, parsed,
                 cacheVars, arenaVars, shardVars>>

\* CacheLayer::get: `self.primary.get(key)`.
GetPrimary(c) ==
    /\ callers[c].pc = "get_primary"
    /\ LET r == InnerGet(layers[LayerOf(c)].primary, callers[c].key, now)
       IN  /\ layers' = [layers EXCEPT
                  ![LayerOf(c)].primary = r.inner,
                  ![LayerOf(c)].primary_ops = Append(@, <<"get", callers[c].key>>)]
           /\ callers' = [callers EXCEPT
                  ![c].pc = "get_comparison",
                  ![c].primary_result = r.result,
                  ![c].touched = @ \cup {LayerOf(c)}]
    /\ UNCHANGED <<cache_swap, current_config, seen, parsed,
                 cacheVars, arenaVars, shardVars>>

\* CacheLayer::get: the comparison lookup and the CacheLookup returned.
GetComparison(c) ==
    /\ callers[c].pc = "get_comparison"
    /\ LET layer == layers[LayerOf(c)]
       IN  IF QueriesComparison(layer, callers[c].primary_result)
           THEN LET r == InnerGet(layer.comparison, callers[c].key, now)
                IN  /\ layers' = [layers EXCEPT
                           ![LayerOf(c)].comparison = r.inner,
                           ![LayerOf(c)].comparison_ops =
                               Append(@, <<"get", callers[c].key>>)]
                    /\ callers' = [callers EXCEPT
                           ![c].pc = "idle",
                           ![c].touched = @ \cup {LayerOf(c)},
                           ![c].ret = [value |-> callers[c].primary_result,
                                       comparison_hit |-> r.result # None]]
           ELSE /\ layers' = layers
                /\ callers' = [callers EXCEPT
                       ![c].pc = "idle",
                       ![c].ret = [value |-> callers[c].primary_result,
                                   comparison_hit |-> FALSE]]
    /\ UNCHANGED <<cache_swap, current_config, seen, parsed,
                 cacheVars, arenaVars, shardVars>>

\* CacheLayer::insert: the insert into the comparison cache in demo mode.
InsertComparison(c) ==
    /\ callers[c].pc = "insert_comparison"
    /\ LET layer == layers[LayerOf(c)]
       IN  IF IsDemoMode(layer) /\ layer.comparison # None
           THEN /\ layers' = [layers EXCEPT
                       ![LayerOf(c)].comparison =
                           InnerInsert(@, callers[c].key, callers[c].value, now),
                       ![LayerOf(c)].comparison_ops =
                           Append(@, <<"insert", callers[c].key>>)]
                /\ callers' = [callers EXCEPT
                       ![c].pc = "insert_primary",
                       ![c].touched = @ \cup {LayerOf(c)}]
           ELSE /\ layers' = layers
                /\ callers' = [callers EXCEPT ![c].pc = "insert_primary"]
    /\ UNCHANGED <<cache_swap, current_config, seen, parsed,
                 cacheVars, arenaVars, shardVars>>

\* CacheLayer::insert: `self.primary.insert(key, value)`.
InsertPrimary(c) ==
    /\ callers[c].pc = "insert_primary"
    /\ layers' = [layers EXCEPT
           ![LayerOf(c)].primary =
               InnerInsert(@, callers[c].key, callers[c].value, now),
           ![LayerOf(c)].primary_ops = Append(@, <<"insert", callers[c].key>>)]
    /\ callers' = [callers EXCEPT
           ![c].pc = "idle",
           ![c].touched = @ \cup {LayerOf(c)}]
    /\ UNCHANGED <<cache_swap, current_config, seen, parsed,
                 cacheVars, arenaVars, shardVars>>

\* post_mode: `state.cache.load().set_mode(mode)`.
SetMode(mode) ==
    /\ seen.flips < MaxFlips
    /\ layers' = [layers EXCEPT ![cache_swap].demo_mode = (mode = "demo")]
    /\ seen' = [seen EXCEPT !.flips = seen.flips + 1,
                            !.benched = seen.benched \/ mode = "bench"]
    /\ UNCHANGED <<cache_swap, current_config, callers, parsed,
                 cacheVars, arenaVars, shardVars>>

\* A reload that carries the mode of the previous layer over to the new one.
ReloadKeepsMode(new_config) ==
    /\ seen.reloads < seen.max_reloads
    /\ IF current_config.eviction_policy # new_config.eviction_policy
          \/ current_config.comparison_policy # new_config.comparison_policy
       THEN /\ layers' = Append(layers,
                   [CacheLayerNew(new_config.eviction_policy,
                                  new_config.comparison_policy,
                                  current_config.capacity)
                       EXCEPT !.demo_mode = layers[cache_swap].demo_mode])
            /\ cache_swap' = Len(layers) + 1
       ELSE UNCHANGED <<layers, cache_swap>>
    /\ current_config' = new_config
    /\ seen' = [seen EXCEPT !.reloads = seen.reloads + 1]
    /\ UNCHANGED <<callers, parsed,
                 cacheVars, arenaVars, shardVars>>

\* The watcher's callback on a change of config.toml: diff_and_apply of the
\* remembered config and the new one, then `*old = new_config`.
Reload(new_config) ==
    /\ seen.reloads < seen.max_reloads
    /\ IF current_config.eviction_policy # new_config.eviction_policy
          \/ current_config.comparison_policy # new_config.comparison_policy
       THEN /\ layers' = Append(layers,
                   CacheLayerNew(new_config.eviction_policy,
                                 new_config.comparison_policy,
                                 current_config.capacity))
            /\ cache_swap' = Len(layers) + 1
       ELSE UNCHANGED <<layers, cache_swap>>
    /\ current_config' = new_config
    /\ seen' = [seen EXCEPT !.reloads = seen.reloads + 1]
    /\ UNCHANGED <<callers, parsed,
                 cacheVars, arenaVars, shardVars>>

NextLayer ==
    \/ \E c \in LayerCallers : \E op \in {"get", "insert"} : \E key \in LayerKeys :
           LayerCall(c, op, key)
    \/ \E c \in LayerCallers : GetPrimary(c)
    \/ \E c \in LayerCallers : GetComparison(c)
    \/ \E c \in LayerCallers : InsertComparison(c)
    \/ \E c \in LayerCallers : InsertPrimary(c)
    \/ \E mode \in {"demo", "bench"} : SetMode(mode)

InitLayer == InitProxy(MaxLayerCalls, 0)

\* The layer under concurrent calls and mode switches, without reloads.
SpecLayer == InitLayer /\ [][NextLayer]_vars

\* One connection and one key, mode switches and reloads.
NextReload ==
    \/ \E op \in {"get", "insert"} : LayerCall("p1", op, "a")
    \/ GetPrimary("p1")
    \/ GetComparison("p1")
    \/ InsertComparison("p1")
    \/ InsertPrimary("p1")
    \/ \E mode \in {"demo", "bench"} : SetMode(mode)
    \/ \E new_config \in Configs : Reload(new_config)

InitReload ==
    /\ InitProxy(MaxReloadCalls, MaxReloads)
    /\ current_config.eviction_policy = "sieve"
    /\ current_config.capacity = 64

\* The layer under calls, mode switches and config reloads.
SpecReload == InitReload /\ [][NextReload]_vars

(***************************************************************************)
(* cache_layer.rs, parse_cache_control, and its callers in proxy.rs.       *)
(*                                                                         *)
(* A header value is a sequence of characters.  The values of the model    *)
(* are made of up to MaxDirectives directive texts of DirectivePool,       *)
(* joined by commas; kind and secs of a pool entry say which directive the *)
(* text is (with the whitespace and the letter case the text has) and are  *)
(* not read by the parser.  parsed holds a response and the call made on   *)
(* it: the texts its header was made of, the header, which of extract_ttl  *)
(* and is_cacheable_headers was called, and the value returned.            *)
(***************************************************************************)
DirectivePool ==
    <<[text |-> <<"m", "a", "x", "-", "a", "g", "e", "=", "1">>,
       kind |-> "max-age", secs |-> 1],
      [text |-> <<" ", "M", "a", "x", "-", "A", "g", "e", "=", "2">>,
       kind |-> "max-age", secs |-> 2],
      [text |-> <<"s", "-", "m", "a", "x", "a", "g", "e", "=", "1">>,
       kind |-> "s-maxage", secs |-> 1],
      [text |-> <<" ", "S", "-", "M", "A", "X", "A", "G", "E", "=", " ", "2",
                  " ">>,
       kind |-> "s-maxage", secs |-> 2],
      [text |-> <<"n", "o", "-", "s", "t", "o", "r", "e">>,
       kind |-> "other", secs |-> 0],
      [text |-> <<" ", "P", "u", "b", "l", "i", "c">>,
       kind |-> "other", secs |-> 0],
      [text |-> <<"m", "a", "x", "-", "a", "g", "e", "=", "1", "x">>,
       kind |-> "other", secs |-> 0]>>

\* The header value made of the pool texts parts, joined by ",".
RECURSIVE JoinDirectives(_)
JoinDirectives(parts) ==
    IF Len(parts) = 0 THEN <<>>
    ELSE IF Len(parts) = 1 THEN DirectivePool[parts[1]].text
    ELSE DirectivePool[parts[1]].text \o <<",">> \o JoinDirectives(Tail(parts))

RECURSIVE SeqsUpTo(_, _)
SeqsUpTo(S, n) ==
    IF n = 0 THEN {<<>>}
    ELSE LET shorter == SeqsUpTo(S, n - 1)
         IN  shorter \cup {Append(s, x) : s \in shorter, x \in S}

HeaderParts == SeqsUpTo(DOMAIN DirectivePool, MaxDirectives) \ {<<>>}

\* str::split(','): the pieces between the separators, empty pieces included.
Split(s, sep) ==
    LET RECURSIVE go(_, _, _)
        go(i, piece, pieces) ==
            IF i > Len(s) THEN Append(pieces, piece)
            ELSE IF s[i] = sep THEN go(i + 1, <<>>, Append(pieces, piece))
            ELSE go(i + 1, Append(piece, s[i]), pieces)
    IN  go(1, <<>>, <<>>)

IsWhitespace(c) == c \in {" ", "\t"}

\* str::trim
RECURSIVE Trim(_)
Trim(s) ==
    IF s = <<>> THEN s
    ELSE IF IsWhitespace(s[1]) THEN Trim(Tail(s))
    ELSE IF IsWhitespace(s[Len(s)]) THEN Trim(SubSeq(s, 1, Len(s) - 1))
    ELSE s

UpperLetters == <<"A", "B", "C", "D", "E", "F", "G", "H", "I", "J", "K", "L",
                  "M", "N", "O", "P", "Q", "R", "S", "T", "U", "V", "W", "X",
                  "Y", "Z">>
LowerLetters == <<"a", "b", "c", "d", "e", "f", "g", "h", "i", "j", "k", "l",
                  "m", "n", "o", "p", "q", "r", "s", "t", "u", "v", "w", "x",
                  "y", "z">>

\* str::to_lowercase on the ASCII letters.
ToLowercase(s) ==
    [i \in 1..Len(s) |->
        IF \E j \in 1..Len(UpperLetters) : UpperLetters[j] = s[i]
        THEN LowerLetters[CHOOSE j \in 1..Len(UpperLetters) : UpperLetters[j] = s[i]]
        ELSE s[i]]

\* str::strip_prefix: the rest of s behind prefix, or None.
StripPrefix(s, prefix) ==
    IF Len(s) >= Len(prefix) /\ SubSeq(s, 1, Len(prefix)) = prefix
    THEN [rest |-> SubSeq(s, Len(prefix) + 1, Len(s))]
    ELSE None

Digits == <<"0", "1", "2", "3", "4", "5", "6", "7", "8", "9">>

\* str::parse::<u64>: decimal digits after an optional "+"; Err (None) for
\* anything else.  The texts of the model have few digits, so that the
\* overflow error does not arise.
ParseU64(s) ==
    LET body == IF s # <<>> /\ s[1] = "+" THEN Tail(s) ELSE s
        digit(c) == (CHOOSE j \in 1..Len(Digits) : Digits[j] = c) - 1
        RECURSIVE value(_)
        value(n) == IF n = 0 THEN 0 ELSE 10 * value(n - 1) + digit(body[n])
    IN  IF body # <<>> /\ \A i \in 1..Len(body) : body[i] \in SeqRange(Digits)
        THEN [ok |-> value(Len(body))]
        ELSE None

\* Some(Duration::from_secs(secs))
SomeSecs(secs) == [secs |-> secs]

\* The body of the loop of parse_cache_control on one piece of the value.
Directive(result, piece) ==
    LET directive == ToLowercase(Trim(piece))
        r1 == IF directive \in {<<"n", "o", "-", "s", "t", "o", "r", "e">>,
                                <<"n", "o", "-", "c", "a", "c", "h", "e">>,
                                <<"p", "r", "i", "v", "a", "t", "e">>}
              THEN [result EXCEPT !.cacheable = FALSE]
              ELSE result
        age1 == StripPrefix(directive, <<"m", "a", "x", "-", "a", "g", "e",
                                         "=">>)
        r2 == IF age1 # None /\ ParseU64(Trim(age1.rest)) # None
              THEN [r1 EXCEPT !.max_age = SomeSecs(ParseU64(Trim(age1.rest)).ok)]
              ELSE r1
        age2 == StripPrefix(directive, <<"s", "-", "m", "a", "x", "a", "g",
                                         "e", "=">>)
    IN  IF age2 # None /\ ParseU64(Trim(age2.rest)) # None
        THEN [r2 EXCEPT !.max_age = SomeSecs(ParseU64(Trim(age2.rest)).ok)]
        ELSE r2

\* parse_cache_control
ParseCacheControl(value) ==
    LET pieces == Split(value, ",")
        RECURSIVE loop(_)
        loop(n) == IF n = 0
                   THEN [cacheable |-> TRUE, max_age |-> None]
                   ELSE Directive(loop(n - 1), pieces[n])
    IN  loop(Len(pieces))

NoHeader == [absent |-> TRUE]

\* A response with the Cache-Control header made of parts, or without that
\* header (parts = <<>>), on which no call has been made.
InitParse ==
    /\ \E parts \in HeaderParts \cup {<<>>} :
           parsed = [call   |-> "none",
                     parts  |-> parts,
                     header |-> IF parts = <<>> THEN NoHeader
                                ELSE JoinDirectives(parts),
                     ret    |-> None]
    /\ layers = Unused
    /\ cache_swap = Unused
    /\ current_config = Unused
    /\ callers = Unused
    /\ seen = Unused
    /\ CacheUnused
    /\ ArenaUnused
    /\ ShardsUnused

\* extract_ttl on the headers of the response.
ExtractTtl ==
    /\ parsed.call = "none"
    /\ parsed' = [parsed EXCEPT
           !.call = "extract_ttl",
           !.ret  = IF parsed.header = NoHeader THEN None
                    ELSE ParseCacheControl(parsed.header).max_age]
    /\ UNCHANGED <<layers, cache_swap, current_config, callers, seen,
                   cacheVars, arenaVars, shardVars>>

\* is_cacheable_headers on the headers of the response.
IsCacheableHeaders ==
    /\ parsed.call = "none"
    /\ parsed' = [parsed EXCEPT
           !.call = "is_cacheable_headers",
           !.ret  = IF parsed.header = NoHeader THEN TRUE
                    ELSE ParseCacheControl(parsed.header).cacheable]
    /\ UNCHANGED <<layers, cache_swap, current_config, callers, seen,
                   cacheVars, arenaVars, shardVars>>

NextParse ==
    \/ ExtractTtl
    \/ IsCacheableHeaders

SpecParse == InitParse /\ [][NextParse]_vars

TypeOK ==
    /\ policy \in Policies
    /\ now \in 0..MaxTime
    /\ cache.capacity \in Capacities \cup {SieveCapacity}

(***************************************************************************)
(* Vocabulary of the properties.                                           *)
(***************************************************************************)
\* A response is fresh at t when its age does not exceed its ttl.
Fresh(value, t) == t - value.inserted_at <= value.ttl

NodeOf(c, key) == c.arena.slots[c.map[key]]

AllVisitedFresh(c, t) ==
    \A key \in DOMAIN c.map : NodeOf(c, key).visited /\ Fresh(NodeOf(c, key).value, t)

\* Slots from index toward the head, following prev.
RECURSIVE Up(_, _, _)
Up(a, index, fuel) ==
    IF index = NIL \/ fuel = 0
    THEN <<>>
    ELSE <<index>> \o Up(a, a.slots[index].prev, fuel - 1)

\* The order in which a scan meets the nodes: from the hand (the tail when
\* the hand is NIL) to the head, then from the tail up to the node before
\* the starting point.
ScanCycle(c) ==
    LET start    == IF c.hand = NIL THEN c.arena.tail ELSE c.hand
        fromHand == Up(c.arena, start, c.arena.len)
        fromTail == Up(c.arena, c.arena.tail, c.arena.len)
    IN  fromHand \o SubSeq(fromTail, 1, Len(fromTail) - Len(fromHand))

\* The position in ScanCycle(c) of the first node that is expired or has its
\* visited bit clear; 0 when there is none.
FirstEvictable(c, t) ==
    LET cyc  == ScanCycle(c)
        cand == {j \in 1..Len(cyc) :
                    \/ ~Fresh(c.arena.slots[cyc[j]].value, t)
                    \/ ~c.arena.slots[cyc[j]].visited}
    IN  IF cand = {} THEN 0 ELSE CHOOSE j \in cand : \A i \in cand : j <= i

(***************************************************************************)
(* C1: for each policy of capacity C >= 1, len() <= C after every          *)
(* operation of any sequence of get, insert and remove calls.              *)
(***************************************************************************)
C1_LenWithinCapacity ==
    /\ cache.capacity >= 1
    /\ PolicyLen(cache) <= cache.capacity

\* A full cache on which an insert has evicted.
C1_Witness ==
    /\ PolicyLen(cache) = cache.capacity
    /\ cache.evictions >= 1
    /\ cache.capacity = 2

(***************************************************************************)
(* C2: get(k) returns a value only if that value is not expired at the     *)
(* moment of the call; a present but expired entry is never returned.      *)
(***************************************************************************)
C2_GetNeverReturnsExpired ==
    \A key \in Keys :
        LET r == PolicyGet(policy, cache, key, now)
        IN  /\ r.result # None => Fresh(r.result, now)
            /\ (key \in DOMAIN cache.map /\ ~Fresh(NodeOf(cache, key).value, now))
                   => r.result = None

\* An expired entry is present while another get has already hit.
C2_Witness ==
    /\ cache.hits >= 1
    /\ \E key \in DOMAIN cache.map : ~Fresh(NodeOf(cache, key).value, now)

(***************************************************************************)
(* C3: insert(k, v) with v unexpired followed immediately by get(k)        *)
(* returns v: the new item survives the eviction its own insert triggers   *)
(* and insert is never a silent no-op.                                     *)
(***************************************************************************)
C3_InsertThenGet ==
    \A key \in Keys : \A value \in Values(now) :
        Fresh(value, now) =>
            LET r == PolicyInsert(policy, cache, key, value, now)
            IN  /\ ~r.diverged
                /\ key \in DOMAIN r.c.map
                /\ PolicyGet(policy, r.c, key, now).result = value

\* A full SIEVE cache in which every entry is visited and fresh, so that the
\* next insert of an absent key has to wrap.
C3_Witness ==
    /\ policy = "SIEVE"
    /\ cache.capacity = 2
    /\ PolicyLen(cache) = cache.capacity
    /\ AllVisitedFresh(cache, now)
    /\ cache.evictions >= 1

(***************************************************************************)
(* C4: in SIEVE a get that hits changes only the hits counter and that     *)
(* node's visited bit; list order, head, tail, hand, every prev/next link, *)
(* len and the map are unchanged, however many times the key is hit.       *)
(***************************************************************************)
C4_SieveHitFrame ==
    policy = "SIEVE" =>
        \A key \in DOMAIN cache.map :
            Fresh(NodeOf(cache, key).value, now) =>
                LET r1 == SieveGet(cache, key, now)
                    r2 == SieveGet(r1.c, key, now)
                    index == cache.map[key]
                IN  /\ r1.result = NodeOf(cache, key).value
                    /\ r1.c = [cache EXCEPT !.hits = cache.hits + 1,
                                            !.arena.slots[index].visited = TRUE]
                    /\ r2.c = [r1.c EXCEPT !.hits = cache.hits + 2]
                    /\ ListKeys(r2.c.arena) = ListKeys(cache.arena)

\* SIEVE: a key at the tail of a two-element list has been hit, with the
\* hand set.
C4_Witness ==
    /\ policy = "SIEVE"
    /\ PolicyLen(cache) = 2
    /\ cache.hits >= 1
    /\ cache.hand # NIL
    /\ cache.arena.slots[cache.arena.tail].visited
    /\ Fresh(cache.arena.slots[cache.arena.tail].value, now)

C6_LruOrder ==
    policy = "LRU" =>
        /\ ListKeys(cache.arena) = byUse
        /\ \A key \in Keys : \A value \in Values(now) :
               LET r == LruInsert(cache, key, value, now)
               IN  r.evicted # <<>> => r.evicted = <<byUse[Len(byUse)]>>

\* LRU: a hit has reordered a full list and an insert has evicted.
C6_Witness ==
    /\ policy = "LRU"
    /\ PolicyLen(cache) = 2
    /\ cache.capacity = 2
    /\ cache.hits >= 1
    /\ cache.evictions >= 1
    /\ byUse # byInsert

(***************************************************************************)
(* C7: FIFO: whenever an insert evicts, the evicted key is the present key *)
(* whose most recent insert is the oldest, however the keys were read; a   *)
(* get never changes the list order.                                       *)
(***************************************************************************)
C7_FifoOrder ==
    policy = "FIFO" =>
        /\ ListKeys(cache.arena) = byInsert
        /\ \A key \in Keys : \A value \in Values(now) :
               LET r == FifoInsert(cache, key, value, now)
               IN  r.evicted # <<>> => r.evicted = <<byInsert[Len(byInsert)]>>
        /\ \A key \in Keys :
               LET r == FifoGet(cache, key, now)
               IN  ListKeys(r.c.arena) = Filter(ListKeys(cache.arena), DOMAIN r.c.map)

\* FIFO: the oldest inserted key of a full list is the most recently read,
\* and an insert has evicted.
C7_Witness ==
    /\ policy = "FIFO"
    /\ PolicyLen(cache) = 2
    /\ cache.capacity = 2
    /\ cache.hits >= 1
    /\ cache.evictions >= 1
    /\ byUse # byInsert

(***************************************************************************)
(* C8: SIEVE: after every operation hand is either NIL or the index of a   *)
(* currently occupied arena slot.                                          *)
(***************************************************************************)
C8_HandValid ==
    policy = "SIEVE" => (cache.hand = NIL \/ cache.hand \in Occupied(cache.arena))

\* An eviction has set the hand, a removal (explicit or by expiry) has since
\* shrunk the cache, and the hand still designates a node.
C8_Witness ==
    /\ policy = "SIEVE"
    /\ cache.evictions >= 1
    /\ cache.hand # NIL
    /\ PolicyLen(cache) < cache.capacity

(***************************************************************************)
(* C9: SIEVE evict_one always terminates: on a non-empty cache it inspects *)
(* at most len + 1 nodes and removes exactly one entry, also when every    *)
(* entry is visited; on an empty cache it returns changing nothing.        *)
(***************************************************************************)
C9_EvictOneTerminates ==
    policy = "SIEVE" =>
        LET r == EvictOne(cache, now)
        IN  /\ ~r.diverged
            /\ PolicyLen(cache) = 0 => (r.c = cache /\ r.scan = <<>>)
            /\ PolicyLen(cache) > 0 =>
                   /\ Len(r.scan) <= PolicyLen(cache) + 1
                   /\ PolicyLen(r.c) = PolicyLen(cache) - 1
                   /\ r.evicted \in DOMAIN cache.map
                   /\ DOMAIN r.c.map = (DOMAIN cache.map) \ {r.evicted}
                   /\ Occupied(r.c.arena) = Occupied(cache.arena) \ {cache.map[r.evicted]}
                   /\ r.c.evictions = cache.evictions + 1

\* A full list in which every entry is visited and fresh and the hand is set:
\* the scan inspects len + 1 nodes.
C9_Witness ==
    /\ policy = "SIEVE"
    /\ PolicyLen(cache) = cache.capacity
    /\ AllVisitedFresh(cache, now)
    /\ cache.hand # NIL
    /\ Len(EvictOne(cache, now).scan) = PolicyLen(cache) + 1

(***************************************************************************)
(* C10: every get increases exactly one of hits or misses by exactly 1     *)
(* (hits if and only if a value is returned); insert and remove never      *)
(* change hits or misses.                                                  *)
(***************************************************************************)
C10_LookupCounters ==
    /\ \A key \in Keys :
           LET r == PolicyGet(policy, cache, key, now)
           IN  IF r.result # None
               THEN r.c.hits = cache.hits + 1 /\ r.c.misses = cache.misses
               ELSE r.c.hits = cache.hits /\ r.c.misses = cache.misses + 1
    /\ \A key \in Keys : \A value \in Values(now) :
           LET r == PolicyInsert(policy, cache, key, value, now)
           IN  r.c.hits = cache.hits /\ r.c.misses = cache.misses
    /\ \A key \in Keys :
           LET r == PolicyRemove(policy, cache, key)
           IN  r.c.hits = cache.hits /\ r.c.misses = cache.misses

\* Hits and misses have both been counted and an expired entry is present,
\* whose get is a miss.
C10_Witness ==
    /\ cache.hits >= 1
    /\ cache.misses >= 1
    /\ \E key \in DOMAIN cache.map : ~Fresh(NodeOf(cache, key).value, now)

(***************************************************************************)
(* C12: insert(k, v2) when k is already present leaves len unchanged and   *)
(* evicts no entry (evictions unchanged, every other key still present,    *)
(* also when the cache is full), and a following get(k) returns v2 rather  *)
(* than the old value.                                                     *)
(***************************************************************************)
\* The statement as it stands: the following get returns v2 whatever v2 is.
C12_Original ==
    \A key \in DOMAIN cache.map : \A value \in Values(now) :
        LET r == PolicyInsert(policy, cache, key, value, now)
        IN  /\ PolicyLen(r.c) = PolicyLen(cache)
            /\ r.c.evictions = cache.evictions
            /\ r.evicted = <<>>
            /\ DOMAIN r.c.map = DOMAIN cache.map
            /\ PolicyGet(policy, r.c, key, now).result = value

\* C12 as amended: the following get returns v2 if v2 is unexpired at that
\* moment and NONE if v2 is already expired; it never returns the old value.
\* The other entries keep their slots and their values.
C12_Reinsert ==
    \A key \in DOMAIN cache.map : \A value \in Values(now) :
        LET r == PolicyInsert(policy, cache, key, value, now)
            g == PolicyGet(policy, r.c, key, now)
        IN  /\ ~r.diverged
            /\ PolicyLen(r.c) = PolicyLen(cache)
            /\ r.c.evictions = cache.evictions
            /\ r.evicted = <<>>
            /\ DOMAIN r.c.map = DOMAIN cache.map
            /\ \A other \in (DOMAIN cache.map) \ {key} :
                   /\ r.c.map[other] = cache.map[other]
                   /\ NodeOf(r.c, other).value = NodeOf(cache, other).value
            /\ NodeOf(r.c, key).value = value
            /\ g.result = IF Fresh(value, now) THEN value ELSE None
            /\ (NodeOf(cache, key).value # value =>
                   g.result # NodeOf(cache, key).value)

\* A full cache of capacity 2 whose older key was inserted again: the key at
\* the head sits in the slot that was allocated first, and nothing was evicted.
C12_Witness ==
    /\ cache.capacity = 2
    /\ PolicyLen(cache) = 2
    /\ cache.evictions = 0
    /\ cache.arena.head = 0
    /\ cache.misses = 0
    /\ \E key \in DOMAIN cache.map : ~Fresh(NodeOf(cache, key).value, now)

(***************************************************************************)
(* C13: remove(k) returns true exactly when k is in the cache; after it    *)
(* returns true, len has decreased by exactly 1 and an immediate get(k)    *)
(* returns NONE; when k is absent it returns false and changes no state,   *)
(* so a second remove(k) right after the first always returns false.       *)
(***************************************************************************)
C13_Remove ==
    \A key \in Keys :
        LET r1 == PolicyRemove(policy, cache, key)
            r2 == PolicyRemove(policy, r1.c, key)
        IN  /\ r1.result = (key \in DOMAIN cache.map)
            /\ r1.result =>
                   /\ PolicyLen(r1.c) = PolicyLen(cache) - 1
                   /\ PolicyGet(policy, r1.c, key, now).result = None
                   /\ DOMAIN r1.c.map = (DOMAIN cache.map) \ {key}
                   /\ Occupied(r1.c.arena) = Occupied(cache.arena) \ {cache.map[key]}
            /\ ~r1.result => r1.c = cache
            /\ ~r2.result
            /\ r2.c = r1.c

\* A remove has shrunk a cache that had evicted: one key of capacity 2 is
\* left, fresh, in the slot allocated second.
C13_Witness ==
    /\ cache.capacity = 2
    /\ PolicyLen(cache) = 1
    /\ cache.evictions >= 1
    /\ cache.misses = 0
    /\ \A key \in DOMAIN cache.map : Fresh(NodeOf(cache, key).value, now)

(***************************************************************************)
(* C14: get(k) on an entry whose age exceeds its ttl (now - inserted_at >  *)
(* ttl, strictly) returns NONE, counts exactly one miss and removes the    *)
(* entry, so that len decreases by 1; an entry whose age equals its ttl    *)
(* exactly is still returned as a hit.                                     *)
(***************************************************************************)
C14_ExpiredGet ==
    \A key \in DOMAIN cache.map :
        LET value == NodeOf(cache, key).value
            age   == now - value.inserted_at
            r     == PolicyGet(policy, cache, key, now)
        IN  /\ age > value.ttl =>
                   /\ r.result = None
                   /\ r.c.misses = cache.misses + 1
                   /\ r.c.hits = cache.hits
                   /\ PolicyLen(r.c) = PolicyLen(cache) - 1
                   /\ key \notin DOMAIN r.c.map
                   /\ Occupied(r.c.arena) = Occupied(cache.arena) \ {cache.map[key]}
            /\ age = value.ttl =>
                   /\ r.result = value
                   /\ r.c.hits = cache.hits + 1
                   /\ r.c.misses = cache.misses
                   /\ PolicyLen(r.c) = PolicyLen(cache)

\* A get has missed, and the cache holds one entry whose age equals its
\* (non-zero) ttl and one whose age exceeds its ttl.
C14_Witness ==
    /\ cache.misses >= 1
    /\ \E key \in DOMAIN cache.map :
           now - NodeOf(cache, key).value.inserted_at = NodeOf(cache, key).value.ttl
           /\ NodeOf(cache, key).value.ttl > 0
    /\ \E key \in DOMAIN cache.map :
           now - NodeOf(cache, key).value.inserted_at > NodeOf(cache, key).value.ttl

(***************************************************************************)
(* Vocabulary of the arena properties.                                     *)
(***************************************************************************)
\* Slots from index toward the tail, following next.
RECURSIVE Down(_, _, _)
Down(a, index, fuel) ==
    IF index = NIL \/ fuel = 0 \/ ArenaGet(a, index) = None
    THEN <<>>
    ELSE <<index>> \o Down(a, a.slots[index].next, fuel - 1)

\* Slots from index toward the head, following prev, stopping at an empty slot.
RECURSIVE UpOccupied(_, _, _)
UpOccupied(a, index, fuel) ==
    IF index = NIL \/ fuel = 0 \/ ArenaGet(a, index) = None
    THEN <<>>
    ELSE <<index>> \o UpOccupied(a, a.slots[index].prev, fuel - 1)

Reverse(s) == [i \in 1..Len(s) |-> s[Len(s) + 1 - i]]

NoDuplicates(s) == Cardinality(SeqRange(s)) = Len(s)

\* The walks are given one step more than there are slots, so that a cycle
\* shows as a walk longer than len.
Forward(a) == Down(a, a.head, Cardinality(DOMAIN a.slots) + 1)
Backward(a) == UpOccupied(a, a.tail, Cardinality(DOMAIN a.slots) + 1)

ArenaAccounting(a, capacity) ==
    /\ DOMAIN a.slots = 0..(capacity - 1)
    /\ a.len + Len(a.free_list) = capacity
    /\ a.len = Cardinality(Occupied(a))
    /\ SeqRange(a.free_list) = (DOMAIN a.slots) \ Occupied(a)
    /\ NoDuplicates(a.free_list)

ArenaLinked(a) ==
    /\ NoDuplicates(Forward(a))
    /\ SeqRange(Forward(a)) = Occupied(a)
    /\ Len(Forward(a)) = a.len
    /\ Backward(a) = Reverse(Forward(a))
    /\ (a.len > 0 => Forward(a)[1] = a.head /\ Forward(a)[a.len] = a.tail)
    /\ (a.head # NIL => a.head \in Occupied(a) /\ a.slots[a.head].prev = NIL)
    /\ (a.tail # NIL => a.tail \in Occupied(a) /\ a.slots[a.tail].next = NIL)
    /\ \A i \in Occupied(a) :
           /\ IF a.slots[i].prev = NIL
              THEN a.head = i
              ELSE /\ a.slots[i].prev \in Occupied(a)
                   /\ a.slots[a.slots[i].prev].next = i
           /\ IF a.slots[i].next = NIL
              THEN a.tail = i
              ELSE /\ a.slots[i].next \in Occupied(a)
                   /\ a.slots[a.slots[i].next].prev = i
    /\ (a.head = NIL) = (a.tail = NIL)
    /\ (a.head = NIL) = (a.len = 0)

(***************************************************************************)
(* C15: arena: after every push_head, remove, move_to_head and pop_tail,   *)
(* len + |free_list| = capacity, len equals the number of occupied slots,  *)
(* and the free list holds exactly the unoccupied slot indices with no     *)
(* duplicates.                                                             *)
(***************************************************************************)
C15_ArenaAccounting == ArenaAccounting(arena, arenaCap)

\* Slot 1 alone is occupied in an arena of capacity 3: slot 0 was allocated
\* and reclaimed, and sits on top of the free list.
C15_Witness ==
    /\ arenaCap = 3
    /\ arena.len = 1
    /\ arena.free_list = <<2, 0>>

(***************************************************************************)
(* C16: arena: in every reachable state, following next from head visits   *)
(* every occupied slot exactly once and ends at tail, following prev from  *)
(* tail visits them in exactly the reverse order (links are reciprocal,    *)
(* head.prev = NIL, tail.next = NIL), and head = NIL iff tail = NIL iff    *)
(* len = 0.                                                                *)
(***************************************************************************)
C16_ArenaLinked == ArenaLinked(arena)

\* A full list of three whose order is neither the order of allocation nor
\* its reverse: the tail has been moved to the head or its slot reused.
C16_Witness ==
    /\ arena.len = 3
    /\ Forward(arena) = <<0, 2, 1>>

(***************************************************************************)
(* C17: arena: a slot index returned by push_head keeps denoting the same  *)
(* entry (same key and value) through any later pushes, move_to_head calls *)
(* and removals of other slots, until that slot itself is removed; only    *)
(* then can the index be handed out again.                                 *)
(***************************************************************************)
C17_SlotStable ==
    /\ DOMAIN handed = Occupied(arena)
    /\ \A index \in DOMAIN handed :
           /\ arena.slots[index].key = handed[index].key
           /\ arena.slots[index].value = handed[index].value
    /\ \A key \in Keys : \A value \in Values(0) :
           LET r == PushHead(arena, NodeNew(key, value))
           IN  r.index # NIL =>
                   /\ r.index \notin DOMAIN handed
                   /\ \A index \in DOMAIN handed :
                          /\ r.arena.slots[index].key = handed[index].key
                          /\ r.arena.slots[index].value = handed[index].value
    /\ \A index \in DOMAIN handed :
           /\ LET moved == MoveToHead(arena, index)
              IN  \A other \in DOMAIN handed :
                      /\ moved.slots[other].key = handed[other].key
                      /\ moved.slots[other].value = handed[other].value
           /\ LET r == ArenaRemove(arena, index)
              IN  /\ r.node.key = handed[index].key
                  /\ r.node.value = handed[index].value
                  /\ \A other \in (DOMAIN handed) \ {index} :
                         /\ r.arena.slots[other].key = handed[other].key
                         /\ r.arena.slots[other].value = handed[other].value
                  /\ PushHead(r.arena, NodeNew(NoKey, None)).index = index

\* Two entries with different keys are held at slots 0 and 2 after slot 1
\* was allocated and removed; the entry of slot 0 is at the head, where a
\* move_to_head or a second allocation of the slot has put it.
C17_Witness ==
    /\ arenaCap = 3
    /\ DOMAIN handed = {0, 2}
    /\ handed[0].key # handed[2].key
    /\ arena.head = 0
    /\ arena.free_list = <<1>>

(***************************************************************************)
(* C18: push_head on an arena that already holds capacity nodes returns    *)
(* NONE and leaves slots, links, head, tail, len and the free list         *)
(* unchanged; the arena never holds more than capacity nodes, and after a  *)
(* remove the freed slot can be allocated again.                           *)
(***************************************************************************)
C18_PushHeadFull ==
    /\ arena.len <= arenaCap
    /\ Cardinality(Occupied(arena)) <= arenaCap
    /\ \A key \in Keys : \A value \in Values(0) :
           LET node == NodeNew(key, value)
               r    == PushHead(arena, node)
           IN  /\ arena.len = arenaCap =>
                      /\ r.index = NIL
                      /\ r.arena = arena
                      /\ \A index \in Occupied(arena) :
                             LET freed == ArenaRemove(arena, index).arena
                                 again == PushHead(freed, node)
                             IN  /\ again.index = index
                                 /\ again.arena.len = arenaCap
                                 /\ again.arena.slots[index].key = key
                                 /\ again.arena.head = index
               /\ arena.len < arenaCap =>
                      /\ r.index # NIL
                      /\ r.arena.len = arena.len + 1

\* A full arena of capacity 2 after a slot was reclaimed and allocated again,
\* as in tests::slot_reclamation: slot 0, allocated first, is at the head,
\* and the two entries have different keys.
C18_Witness ==
    /\ arenaCap = 2
    /\ arena.len = arenaCap
    /\ arena.head = 0
    /\ arena.slots[0].key # arena.slots[1].key

(***************************************************************************)
(* Vocabulary of the sharded properties.                                   *)
(***************************************************************************)
Holders(idx) == {w \in Workers : threads[w].idx = idx}

ReaderHolds(idx) == reader.held /\ ShardAt(reader.pos) = idx

CountersLeq(c, d) ==
    /\ c.hits <= d.hits
    /\ c.misses <= d.misses
    /\ c.evictions <= d.evictions

\* The capacities of the shards that a len or stats call has read so far.
CapacityRead ==
    LET RECURSIVE sum(_)
        sum(pos) == IF pos >= reader.pos THEN 0
                    ELSE shards[ShardAt(pos)].capacity + sum(pos + 1)
    IN  sum(1)

(***************************************************************************)
(* C11: the hits, misses and evictions counters of a policy never decrease *)
(* under any operation, and the aggregated hits, misses and evictions      *)
(* returned by successive stats() calls on the sharded cache never         *)
(* decrease either, even while other threads operate on the cache between  *)
(* and during those calls.                                                 *)
(***************************************************************************)
C11_CountersMonotone ==
    [][/\ \A idx \in ShardIds : CountersLeq(shards[idx], shards'[idx])
       /\ CountersLeq(reader.last.stats, reader'.last.stats)]_vars

\* A first stats() has returned a miss; a second stats() is under way after
\* another call has missed on the first shard, so that its running total
\* already exceeds the first result, while a worker holds the write lock of
\* the shard it reads next.
C11_Witness ==
    /\ reader.call = "stats"
    /\ issued.reads = 2
    /\ reader.last.stats.misses >= 1
    /\ reader.pos = 2
    /\ reader.total.misses > reader.last.stats.misses
    /\ Holders(ShardAt(2)) # {}

(***************************************************************************)
(* C19: under any interleaving of concurrent get, insert and remove calls  *)
(* from several threads, every shard holds at most its per-shard capacity  *)
(* at every instant, so len() <= capacity() whenever the two are read      *)
(* (also while other threads are still running).                           *)
(***************************************************************************)
C19_ShardedLenWithinCapacity ==
    /\ \A idx \in ShardIds :
           /\ shards[idx].capacity >= 1
           /\ PolicyLen(shards[idx]) <= shards[idx].capacity
    /\ \A w \in Workers :
           threads[w] # Idle =>
               /\ PolicyLen(threads[w].shard) <= threads[w].shard.capacity
               /\ \A key \in Keys : \A age \in Ages :
                      LET r == PolicyInsert(policy, threads[w].shard, key,
                                            [inserted_at |-> now - age, ttl |-> 0], now)
                      IN  PolicyLen(r.c) <= threads[w].shard.capacity
    /\ reader.call # "idle" => reader.total.current_size <= CapacityRead
    /\ reader.last.len <= ShardedCapacity(shards)
    /\ reader.last.stats.current_size <= reader.last.stats.capacity
    /\ reader.last.stats.capacity \in {0, ShardedCapacity(shards)}

\* len() has returned 2 with one entry in each of two shards of capacity 1,
\* and an insert has since evicted in a full shard.
C19_Witness ==
    /\ reader.last.len = 2
    /\ \A idx \in ShardIds :
           PolicyLen(shards[idx]) = 1 /\ shards[idx].capacity = 1
    /\ \E idx \in ShardIds : shards[idx].evictions >= 1

C29_EvictionsCounted ==
    /\ \A key \in Keys : \A value \in Values(now) :
           LET r       == PolicyInsert(policy, cache, key, value, now)
               removed == ((DOMAIN cache.map) \ {key}) \ DOMAIN r.c.map
           IN  /\ r.c.evictions = cache.evictions + Cardinality(removed)
               /\ SeqRange(r.evicted) = removed
               /\ Len(r.evicted) = Cardinality(removed)
               /\ key \in DOMAIN cache.map => r.c.evictions = cache.evictions
    /\ \A key \in Keys :
           /\ PolicyRemove(policy, cache, key).c.evictions = cache.evictions
           /\ PolicyGet(policy, cache, key, now).c.evictions = cache.evictions
    /\ policy = "SIEVE" /\ PolicyLen(cache) > 0 =>
           LET r == EvictOne(cache, now)
           IN  /\ r.c.evictions = cache.evictions + 1
               /\ PolicyLen(r.c) = PolicyLen(cache) - 1

\* A full SIEVE cache that has evicted before and whose next scan meets an
\* expired entry first: that entry is visited, so only its expiry evicts it.
C29_Witness ==
    /\ policy = "SIEVE"
    /\ cache.evictions >= 1
    /\ PolicyLen(cache) = cache.capacity
    /\ LET first == ScanCycle(cache)[1]
       IN  /\ ~Fresh(cache.arena.slots[first].value, now)
           /\ cache.arena.slots[first].visited

(***************************************************************************)
(* C30: insert(k, v) evicts exactly one entry when k is absent and len =   *)
(* capacity beforehand, and evicts none otherwise; a single insert never   *)
(* evicts more than one entry and its eviction loop always terminates.     *)
(***************************************************************************)
C30_InsertEvictsOne ==
    \A key \in Keys : \A value \in Values(now) :
        LET r    == PolicyInsert(policy, cache, key, value, now)
            full == key \notin DOMAIN cache.map /\ PolicyLen(cache) = cache.capacity
        IN  /\ ~r.diverged
            /\ Len(r.evicted) = IF full THEN 1 ELSE 0
            /\ Cardinality((DOMAIN cache.map) \ DOMAIN r.c.map) = IF full THEN 1 ELSE 0
            /\ PolicyLen(r.c) = IF full \/ key \in DOMAIN cache.map
                                THEN PolicyLen(cache)
                                ELSE PolicyLen(cache) + 1

\* A full FIFO cache of capacity 2 that has evicted and lacks a key, and a
\* cache of the same kind with room has been seen before (a miss is counted).
C30_Witness ==
    /\ policy = "FIFO"
    /\ cache.capacity = 2
    /\ PolicyLen(cache) = cache.capacity
    /\ cache.evictions >= 1
    /\ cache.misses >= 1
    /\ Keys \ DOMAIN cache.map # {}

(***************************************************************************)
(* C22: ShardedCache::new creates 64 shards, each of capacity              *)
(* max(1, total_capacity div 64); that capacity is never 0, whatever       *)
(* total_capacity is (0 included), so no policy constructor refuses it;    *)
(* capacity() is 64 times the per-shard capacity.  The cache in use keeps   *)
(* these capacities through every call; the constructor is also applied to *)
(* every total_capacity in 0 .. MaxTotal when the cache is built.          *)
(***************************************************************************)
Max(a, b) == IF a >= b THEN a ELSE b

C22_PerShardCapacity ==
    /\ NUM_SHARDS = 64
    /\ ShardIds \subseteq 0 .. NUM_SHARDS - 1
    /\ DOMAIN shards = ShardIds
    /\ \A idx \in ShardIds :
           /\ shards[idx] # Refused
           /\ shards[idx].capacity = Max(1, issued.total_capacity \div 64)
    /\ ShardedCapacity(shards) = 64 * Max(1, issued.total_capacity \div 64)
    /\ issued.calls = 0 /\ issued.reads = 0 =>
           \A total_capacity \in 0 .. MaxTotal : \A p \in Policies :
               LET sh == ShardedNew(total_capacity, p)
               IN  /\ \A idx \in ShardIds :
                          /\ sh[idx] # Refused
                          /\ sh[idx].capacity = Max(1, total_capacity \div 64)
                          /\ sh[idx].capacity >= 1
                   /\ ShardedCapacity(sh) = 64 * Max(1, total_capacity \div 64)

\* A cache built with total_capacity 0 whose shards of capacity 1 are both
\* full, one of them after an eviction.
C22_Witness ==
    /\ issued.total_capacity = 0
    /\ \A idx \in ShardIds : PolicyLen(shards[idx]) = 1 /\ shards[idx].capacity = 1
    /\ \E idx \in ShardIds : shards[idx].evictions >= 1

(***************************************************************************)
(* C21: a thread never holds more than one shard lock at a time; no        *)
(* deadlock is possible (whenever a call is under way, some call under way *)
(* can take its next step); under fair scheduling every call eventually    *)
(* returns.                                                                *)
(***************************************************************************)
LocksHeld(t) ==
    IF t = Reader
    THEN {idx \in ShardIds : Reader \in locks[idx].readers}
    ELSE {idx \in ShardIds : locks[idx].writer = t}

UnderWay(t) ==
    IF t = Reader THEN reader.call # "idle" ELSE threads[t] # Idle

C21_OneLockAndReturn ==
    /\ [](\A t \in Workers \cup {Reader} : Cardinality(LocksHeld(t)) <= 1)
    /\ []((\E t \in Workers \cup {Reader} : UnderWay(t)) => ENABLED Progress)
    /\ \A t \in Workers \cup {Reader} : UnderWay(t) ~> ~UnderWay(t)

\* One worker holds the write lock of a shard, the other worker waits for
\* the same lock, and the reader waits for it too, having read no shard yet
\* in its second call.
C21_Witness ==
    /\ \E idx \in ShardIds :
           /\ threads["w1"].idx = idx /\ threads["w1"].shard # None
           /\ threads["w2"].idx = idx /\ threads["w2"].shard = None
           /\ reader.call = "stats" /\ ~reader.held /\ ShardAt(reader.pos) = idx
    /\ issued.reads = 2

(***************************************************************************)
(* C23 as stated: once all threads of scenario S7 have finished, the final *)
(* stats() has hits + misses >= threads x operations per thread (8 x 1000  *)
(* in the test).                                                           *)
(***************************************************************************)
C23_Original ==
    reader.call = "done" =>
        reader.last.stats.hits + reader.last.stats.misses
            >= Cardinality(Workers) * OpsPerThread

(***************************************************************************)
(* C23 as amended: once all threads of scenario S7 have finished, the      *)
(* final stats() has hits + misses equal to the number of get calls        *)
(* issued; an insert counts neither a hit nor a miss, every third          *)
(* operation of a thread (i % 3 = 0) is an insert, so the sum is threads x *)
(* (operations - ceil(operations / 3)); len <= capacity holds.             *)
(***************************************************************************)
C23_LookupsAreGets ==
    reader.call = "done" =>
        /\ reader.last.stats.hits + reader.last.stats.misses = lin.gets
        /\ lin.gets + lin.inserts = Cardinality(Workers) * OpsPerThread
        /\ lin.gets = Cardinality(Workers)
                         * (OpsPerThread - (OpsPerThread + 2) \div 3)
        /\ reader.last.len <= ShardedCapacity(shards)
        /\ reader.last.stats.capacity = ShardedCapacity(shards)

\* The scenario has run to its end after a pre-population, with hits and
\* misses both counted and an entry evicted on the way.
C23_Witness ==
    /\ reader.call = "done"
    /\ lin.populated = MaxPopulate
    /\ reader.last.stats.hits >= 1
    /\ reader.last.stats.misses >= 1
    /\ reader.last.stats.evictions >= 1

(***************************************************************************)
(* Vocabulary of the claims about the cache layer.                         *)
(***************************************************************************)
LayerIds == 1 .. Len(layers)
OpsOn(ops, key) == SelectSeq(ops, LAMBDA o : o[2] = key)
Quiescent == \A c \in LayerCallers : callers[c].pc = "idle"
\* The calls that have reached one inner cache and not yet the other.
Halfway == {c \in LayerCallers : callers[c].pc \in {"get_comparison", "insert_primary"}}

(***************************************************************************)
(* C24: in demo mode with a comparison cache, every get(k) of the layer    *)
(* reaches both caches whether or not the primary hit, and every           *)
(* insert(k, v) reaches both, so with sequential callers both caches       *)
(* receive the same sequence of operations (a call under way has reached   *)
(* one cache and not yet the other); two caches of the same policy are     *)
(* then in the same state and report the same hit; the value returned is   *)
(* the primary's result.                                                   *)
(***************************************************************************)
C24_SameOpsSequential ==
    (~seen.overlap /\ ~seen.benched) =>
        /\ \A i \in LayerIds : layers[i].comparison # None =>
               LET l == layers[i]
               IN  /\ Halfway = {} => l.primary_ops = l.comparison_ops
                   /\ \A c \in Halfway :
                          IF callers[c].op = "get"
                          THEN l.primary_ops =
                                   Append(l.comparison_ops, <<"get", callers[c].key>>)
                          ELSE l.comparison_ops =
                                   Append(l.primary_ops, <<"insert", callers[c].key>>)
                   /\ (Halfway = {} /\ l.primary.policy = l.comparison.policy) =>
                          l.primary = l.comparison
        /\ \A c \in LayerCallers : callers[c].ret # None =>
               /\ callers[c].ret.value = callers[c].primary_result
               /\ LET l == layers[callers[c].layer]
                  IN  (l.comparison # None /\ l.primary.policy = l.comparison.policy)
                          => callers[c].ret.comparison_hit = (callers[c].ret.value # None)

\* Sequential calls in demo mode on a layer with a comparison cache: a get
\* has just hit in both caches after an earlier get that missed in both.
C24_Witness ==
    /\ ~seen.overlap /\ ~seen.benched
    /\ Quiescent
    /\ layers[1].comparison # None
    /\ layers[1].primary.policy # layers[1].comparison.policy
    /\ \E c \in LayerCallers :
           /\ callers[c].ret # None
           /\ callers[c].ret.value # None
           /\ callers[c].ret.comparison_hit
    /\ \E key \in LayerKeys :
           /\ layers[1].comparison_ops[1] = <<"get", key>>
           /\ Len(layers[1].comparison_ops) = 3

(***************************************************************************)
(* C25: in demo mode with concurrent callers, for every interleaving of    *)
(* get and insert calls the primary and the comparison cache have          *)
(* received the operations on each key in the same order once the calls    *)
(* have returned.                                                          *)
(***************************************************************************)
C25_SameOrderPerKey ==
    (~seen.benched /\ Quiescent) =>
        \A i \in LayerIds : layers[i].comparison # None =>
            \A key \in LayerKeys :
                OpsOn(layers[i].primary_ops, key) = OpsOn(layers[i].comparison_ops, key)

LayerComplete(l) ==
    /\ l.primary.policy \in Policies
    /\ DOMAIN l.primary.shards = ShardIds
    /\ \A idx \in ShardIds : l.primary.shards[idx] # Refused
    /\ l.comparison # None =>
           /\ l.comparison.policy \in Policies
           /\ DOMAIN l.comparison.shards = ShardIds
           /\ \A idx \in ShardIds : l.comparison.shards[idx] # Refused

C27_LoadedLayerWhole ==
    /\ cache_swap \in LayerIds
    /\ \A i \in LayerIds : LayerComplete(layers[i])
    /\ Len(layers) <= 1 + seen.reloads
    /\ cache_swap = Len(layers)
    /\ \A c \in LayerCallers :
           /\ callers[c].pc # "idle" => callers[c].layer \in LayerIds
           /\ callers[c].touched \subseteq {callers[c].layer}
           /\ callers[c].ret # None =>
                  /\ callers[c].touched = {callers[c].layer}
                  /\ Len(layers[callers[c].layer].primary_ops) >= 1

\* A get loaded the first layer and looked the key up in its primary cache;
\* then a reload put a second layer behind the pointer; the get finished on
\* the comparison cache of the layer it had loaded.
C27_Witness ==
    /\ Len(layers) = 2
    /\ cache_swap = 2
    /\ callers["p1"].layer = 1
    /\ callers["p1"].pc = "idle"
    /\ callers["p1"].ret # None
    /\ callers["p1"].touched = {1}
    /\ layers[1].primary_ops = <<<<"get", "a">>>>
    /\ layers[1].comparison_ops = <<<<"get", "a">>>>
    /\ layers[2].primary_ops = <<>>
    /\ layers[2].comparison_ops = <<>>

(***************************************************************************)
(* C28: after any sequence of config reloads the capacity of the layer     *)
(* behind the pointer equals the capacity configured at process start.     *)
(***************************************************************************)
C28_CapacityFixed ==
    ShardedCapacity(layers[cache_swap].primary.shards) = seen.start.capacity

(***************************************************************************)
(* C37: for each policy, in every reachable state the key-to-slot map and  *)
(* the arena agree: the map's values are exactly the occupied slot         *)
(* indices, no two keys share a slot, the node at map[k] has key k, and    *)
(* the map's size equals len().                                            *)
(***************************************************************************)
C37_MapArenaAgree ==
    LET map == cache.map
        a   == cache.arena
    IN  /\ {map[k] : k \in DOMAIN map} = Occupied(a)
        /\ \A k1, k2 \in DOMAIN map : map[k1] = map[k2] => k1 = k2
        /\ \A k \in DOMAIN map : ArenaGet(a, map[k]) # None /\ a.slots[map[k]].key = k
        /\ Cardinality(DOMAIN map) = PolicyLen(cache)

\* Two keys are cached after an eviction, and the slot a removed entry gave
\* back has been handed out again: the later key sits in the lower slot.
C37_Witness ==
    /\ PolicyLen(cache) = 2
    /\ cache.evictions >= 1
    /\ Len(byInsert) = 2
    /\ cache.map[byInsert[1]] < cache.map[byInsert[2]]

(***************************************************************************)
(* C31: SIEVE: whenever the node that hand points to is removed by         *)
(* remove(k), by replacing k on insert, or by an expired get(k), hand is   *)
(* set to that node's prev (NIL if it was the head), read before the node  *)
(* is unlinked; when such an operation removes a different node, or when   *)
(* get hits or misses on an absent key, hand is unchanged.                 *)
(***************************************************************************)
C31_HandFollowsRemoval ==
    policy = "SIEVE" =>
        \A key \in SieveKeys :
            LET present  == key \in DOMAIN cache.map
                index    == IF present THEN cache.map[key] ELSE NIL
                atHand   == present /\ cache.hand = index
                expected == IF atHand THEN cache.arena.slots[index].prev ELSE cache.hand
                expired  == present /\ ~Fresh(NodeOf(cache, key).value, now)
            IN  /\ (atHand /\ cache.arena.head = index) => expected = NIL
                /\ SieveRemove(cache, key).c.hand = expected
                /\ present =>
                       \A age \in Ages :
                           SieveInsert(cache, key, [inserted_at |-> now - age, ttl |-> 0],
                                       now).c.hand = expected
                /\ SieveGet(cache, key, now).c.hand =
                       IF expired THEN expected ELSE cache.hand

\* The hand rests on an expired node inside the list (it has a prev), next
\* to a fresh node the hand does not point to.
C31_Witness ==
    /\ policy = "SIEVE"
    /\ cache.hand # NIL
    /\ cache.hand # cache.arena.tail
    /\ ~Fresh(cache.arena.slots[cache.hand].value, now)
    /\ cache.arena.slots[cache.hand].prev # NIL
    /\ Fresh(cache.arena.slots[cache.arena.slots[cache.hand].prev].value, now)

(***************************************************************************)
(* C32: SIEVE: the relative list order of the surviving entries never      *)
(* changes: no get, eviction scan or removal of another entry moves a      *)
(* node, so the list from head to tail is always ordered from the most     *)
(* recently to the least recently inserted entry (a re-insert counts as a  *)
(* new insertion at the head).                                             *)
(***************************************************************************)
C32_SieveInsertionOrder ==
    policy = "SIEVE" =>
        /\ ListKeys(cache.arena) = byInsert
        /\ \A key \in SieveKeys :
               LET g == SieveGet(cache, key, now).c
                   r == SieveRemove(cache, key).c
               IN  /\ ListKeys(g.arena) = Filter(byInsert, DOMAIN g.map)
                   /\ ListKeys(r.arena) = Filter(byInsert, DOMAIN r.map)
        /\ LET e == EvictOne(cache, now).c
           IN  ListKeys(e.arena) = Filter(byInsert, DOMAIN e.map)

\* A scan has passed over the tail, which was read, and evicted a younger
\* entry: the hand rests above a node that survived it, in a full list.
C32_Witness ==
    /\ policy = "SIEVE"
    /\ PolicyLen(cache) = SieveCapacity
    /\ cache.evictions >= 1
    /\ cache.hits >= 1
    /\ cache.hand # NIL
    /\ cache.arena.slots[cache.hand].next # NIL
    /\ byUse # byInsert

(***************************************************************************)
(* C33: SIEVE evict_one clears the visited bit of exactly the unexpired    *)
(* visited nodes it passes over before reaching its victim and changes no  *)
(* other node's bit; hence one hit protects an entry from only one passage *)
(* of the hand, and every newly inserted node starts unvisited.            *)
(***************************************************************************)
C33_ScanClearsPassedBits ==
    policy = "SIEVE" =>
        /\ LET r      == EvictOne(cache, now)
               passed == SeqRange(SubSeq(r.scan, 1, Len(r.scan) - 1))
           IN  /\ ~r.diverged
               /\ \A i \in passed :
                      /\ cache.arena.slots[i].visited
                      /\ Fresh(cache.arena.slots[i].value, now)
               /\ \A i \in Occupied(r.c.arena) :
                      r.c.arena.slots[i].visited =
                          (cache.arena.slots[i].visited /\ i \notin passed)
        /\ \A key \in DOMAIN cache.map :
               Fresh(NodeOf(cache, key).value, now) =>
                   LET g == SieveGet(cache, key, now).c
                       e == EvictOne(g, now)
                   IN  (key \in DOMAIN e.c.map /\ g.map[key] \in SeqRange(e.scan))
                           => ~NodeOf(e.c, key).visited
        /\ \A key \in SieveKeys : \A age \in Ages :
               LET r == SieveInsert(cache, key, [inserted_at |-> now - age, ttl |-> 0], now)
               IN  (~r.diverged /\ key \in DOMAIN r.c.map) => ~NodeOf(r.c, key).visited

\* A full list in which the scan would pass over a fresh visited node, evict
\* the next one and not reach a third node whose bit is set.
C33_Witness ==
    /\ policy = "SIEVE"
    /\ PolicyLen(cache) = SieveCapacity
    /\ FirstEvictable(cache, now) = 2
    /\ cache.arena.slots[ScanCycle(cache)[3]].visited
    /\ Fresh(cache.arena.slots[ScanCycle(cache)[3]].value, now)

(***************************************************************************)
(* C34: arena: move_to_head(i) on an occupied slot makes i the head, keeps *)
(* len and the relative order of all other nodes, sets tail to i's former  *)
(* prev when i was the tail, and changes nothing at all when i is already  *)
(* the head (including the single-element list).                           *)
(***************************************************************************)
C34_MoveToHead ==
    \A index \in Occupied(arena) :
        LET moved  == MoveToHead(arena, index)
            others == Occupied(arena) \ {index}
        IN  /\ moved.head = index
            /\ moved.len = arena.len
            /\ Forward(moved) = <<index>> \o Filter(Forward(arena), others)
            /\ Backward(moved) = Filter(Backward(arena), others) \o <<index>>
            /\ moved.tail = IF arena.tail = index /\ arena.head # index
                            THEN arena.slots[index].prev
                            ELSE arena.tail
            /\ arena.head = index => moved = arena

\* Three nodes allocated in slot order, whose middle one has been moved to
\* the head: the tail, the middle and the head can each be moved.
C34_Witness ==
    /\ arena.len = 3
    /\ Forward(arena) = <<1, 2, 0>>

(***************************************************************************)
(* C35: ShardedCache: the shard of a key is a function of the key          *)
(* (hash & 63, always in 0..63): every get, insert and remove of a key     *)
(* goes to that shard, a key is stored in at most one shard, and an        *)
(* operation on one key changes no entries or counters in any other shard. *)
(***************************************************************************)
C35_OneShardPerKey ==
    [][/\ \A key \in Keys : ShardIndex(key) \in 0..(NUM_SHARDS - 1)
       /\ \A idx \in ShardIds :
              \A key \in DOMAIN shards'[idx].map : ShardIndex(key) = idx
       /\ \A key \in Keys :
              Cardinality({idx \in ShardIds : key \in DOMAIN shards'[idx].map}) <= 1
       /\ \A idx \in ShardIds :
              shards'[idx] # shards[idx] =>
                  /\ \E w \in Workers : threads[w].idx = idx /\ threads'[w] = Idle
                  /\ \A other \in ShardIds \ {idx} : shards'[other] = shards[other]]_vars

\* Two keys with the same low six hash bits are stored in one shard, and a
\* call on a third key has returned to another shard, where it is counted.
C35_Witness ==
    \E idx \in ShardIds :
        /\ Cardinality(DOMAIN shards[idx].map) = 2
        /\ \E other \in ShardIds \ {idx} :
               shards[other].misses + PolicyLen(shards[other]) >= 1
        /\ \A w \in Workers : threads[w] = Idle

(***************************************************************************)
(* C39: ShardedCache: when no call is in flight, stats().hits +            *)
(* stats().misses equals the total number of get calls completed by all    *)
(* threads, and stats().current_size equals len(); no counter update is    *)
(* lost.                                                                   *)
(***************************************************************************)
C39_QuiescentStats ==
    (\A w \in Workers : threads[w] = Idle) =>
        LET stats == ShardedStats(shards)
        IN  /\ stats.hits + stats.misses = issued.gets
            /\ stats.current_size = ShardedLen(shards)
            /\ stats.current_size =
                   Cardinality({key \in Keys : \E idx \in ShardIds :
                                                key \in DOMAIN shards[idx].map})

\* No call is in flight after two gets have returned, a hit on one shard
\* and a miss on another.
C39_Witness ==
    /\ \A w \in Workers : threads[w] = Idle
    /\ issued.gets = 2
    /\ \E idx \in ShardIds :
           /\ shards[idx].hits = 1
           /\ \E other \in ShardIds \ {idx} : shards[other].misses = 1

\* An inner cache that holds no entry and has counted nothing.
InnerFresh(inner) ==
    /\ \A idx \in ShardIds : DOMAIN inner.shards[idx].map = {}
    /\ ShardedStats(inner.shards).hits = 0
    /\ ShardedStats(inner.shards).misses = 0
    /\ ShardedStats(inner.shards).evictions = 0
    /\ ShardedStats(inner.shards).current_size = 0
(***************************************************************************)
(* C40: a hot reload that changes the eviction policy (or the comparison   *)
(* policy) installs a new cache layer that is empty, has all counters at   *)
(* zero and is in demo mode, regardless of the previous layer's contents,  *)
(* counters or mode; a bench mode set at runtime is not carried over.      *)
(***************************************************************************)
C40_ReloadedLayerFresh ==
    [][/\ (\/ current_config'.eviction_policy # current_config.eviction_policy
           \/ current_config'.comparison_policy # current_config.comparison_policy)
              => cache_swap' # cache_swap
       /\ cache_swap' # cache_swap =>
              LET new == layers'[cache_swap']
              IN  /\ InnerFresh(new.primary)
                  /\ new.comparison # None => InnerFresh(new.comparison)
                  /\ (new.comparison = None) = (current_config'.comparison_policy = "none")
                  /\ IsDemoMode(new)
                  /\ layers'[cache_swap] = layers[cache_swap]]_vars

\* The first layer holds an entry and was switched to bench mode; a reload
\* has put a second layer behind the pointer, which no call has used yet.
C40_Witness ==
    /\ Len(layers) = 2
    /\ cache_swap = 2
    /\ ~IsDemoMode(layers[1])
    /\ ~InnerFresh(layers[1].primary)
    /\ layers[2].primary_ops = <<>>
    /\ IsDemoMode(layers[2])

(***************************************************************************)
(* C38: SIEVE with capacity C: an entry that is never hit after its        *)
(* insertion (and not removed or replaced) is evicted no later than the    *)
(* C-th eviction that follows its insertion; the hand cannot pass over an  *)
(* unvisited entry.                                                        *)
(***************************************************************************)
C38_UnhitEvictedWithinC ==
    /\ \A key \in DOMAIN unhit :
           /\ key \in DOMAIN cache.map
           /\ ~NodeOf(cache, key).visited
           /\ cache.evictions - unhit[key] < cache.capacity
    /\ LET r == EvictOne(cache, now)
       IN  \A i \in SeqRange(SubSeq(r.scan, 1, Len(r.scan) - 1)) :
               cache.arena.slots[i].visited

\* An entry that was never hit has survived C - 1 evictions in a cache of
\* capacity 2, next to an entry that a get has returned.
C38_Witness ==
    /\ cache.capacity = 2
    /\ PolicyLen(cache) = 2
    /\ cache.hits >= 1
    /\ \E key \in DOMAIN unhit : cache.evictions - unhit[key] = cache.capacity - 1
    /\ \E key \in DOMAIN cache.map : key \notin DOMAIN unhit

(***************************************************************************)
(* C36: parse_cache_control: when a Cache-Control value contains both a    *)
(* max-age and an s-maxage directive, the resulting TTL (max_age) is the   *)
(* s-maxage value, in whichever order the two directives appear (s-maxage  *)
(* takes precedence).                                                      *)
(***************************************************************************)
C36_SMaxageWins ==
    LET kinds(kind) == {i \in 1..Len(parsed.parts) :
                           DirectivePool[parsed.parts[i]].kind = kind}
    IN  (/\ parsed.call = "extract_ttl"
         /\ kinds("max-age") # {}
         /\ kinds("s-maxage") # {})
            => \E i \in kinds("s-maxage") :
                   parsed.ret = SomeSecs(DirectivePool[parsed.parts[i]].secs)

====
